---- MODULE Spec2Model ----
(***************************************************************************)
(* A model of shuldan/repository: the Spec -> SQL compiler, the dialects'  *)
(* upsert templates, keyset pagination (Query.Page), the simple and the    *)
(* composite driver and the Repository facade, together with a small       *)
(* relational store that executes the statements they issue.               *)
(*                                                                         *)
(* SQL text is modelled as a sequence of tokens (one token per word,       *)
(* parenthesis, comma or placeholder of the Go string).                    *)
(***************************************************************************)
EXTENDS Integers, Sequences, FiniteSets, TLC

VARIABLES
    mode,      \* which part of the library the behaviour exercises
    tree,      \* compiler: the Spec value being built by the caller
    other,     \* compiler: a second Spec value, used as a sibling
    out,       \* compiler: the result of the last ToSQL call
    rows,      \* store: the rows of the root table
    q,         \* pagination: the Query builder
    page,      \* pagination: the result of the last Page call
    seen,      \* pagination: the items of all pages of the walk so far
    pc,        \* pagination: "build", "ready" (Page may be called), "paged"
    kin,       \* keyset: the inputs of buildKeysetSpec (orders, cursor values, forward) and a row
    kout,      \* keyset: the predicate built, its SQL and its value on the row
    cfg,       \* writes: the mapping in use (dialect, table, relations, driver)
    db,        \* writes: the persisted rows of the root table and of the child tables
    wr,        \* writes: the concurrent writers (what each has read, what its Save returned)
    last,      \* writes: the last Repository call, its error and the statements it issued
    codec      \* cursor codec: a cursor, a token, and what DecodeCursor and Page made of it

vars ==
    <<mode, tree, other, out, rows, q, page, seen, pc, kin, kout, cfg, db, wr, last, codec>>

writeVars ==
    <<cfg, db, wr, last>>

keysetVars ==
    <<kin, kout>>

compileVars ==
    <<tree, other, out>>

pageVars ==
    <<rows, q, page, seen, pc>>

----------------------------------------------------------------------------
(* Bounds                                                                  *)

MaxNodes ==
    5

MaxOffset ==
    2

NRows ==
    3

MaxVal ==
    2

MaxOrders ==
    2

MaxPageSize ==
    2

----------------------------------------------------------------------------
(* SQL tokens                                                              *)

W(s) ==
    [k |-> "w", s |-> s, n |-> 0]

Ph(s, n) ==
    [k |-> "ph", s |-> s, n |-> n]

IsPh(t) ==
    t.k = "ph"

Paren(sql) ==
    <<W("(")>> \o sql \o <<W(")")>>

RECURSIVE Join(_, _)
Join(parts, sep) ==
    IF Len(parts) = 0 THEN <<>>
    ELSE IF Len(parts) = 1 THEN parts[1]
    ELSE parts[1] \o sep \o Join(Tail(parts), sep)

----------------------------------------------------------------------------
(* Dialects: Placeholder, ILikeOp                                          *)

Dialects ==
    {"postgres", "mysql", "sqlite"}

Placeholder(d, n) ==
    IF d = "postgres" THEN Ph("$", n) ELSE Ph("?", 0)

ILikeOp(d) ==
    IF d = "postgres" THEN "ILIKE" ELSE "LIKE"

----------------------------------------------------------------------------
(* Spec values (spec.go).  Every node has the same record shape.           *)

Node(kind, column, op, vals, specs, flag) ==
    [kind |-> kind, column |-> column, op |-> op, vals |-> vals,
     specs |-> specs, flag |-> flag]

NilSpec ==
    Node("nil", "", "", <<>>, <<>>, FALSE)

Eq(column, value) ==
    Node("cmp", column, "=", <<value>>, <<>>, FALSE)

NotEq(column, value) ==
    Node("cmp", column, "!=", <<value>>, <<>>, FALSE)

Gt(column, value) ==
    Node("cmp", column, ">", <<value>>, <<>>, FALSE)

Gte(column, value) ==
    Node("cmp", column, ">=", <<value>>, <<>>, FALSE)

Lt(column, value) ==
    Node("cmp", column, "<", <<value>>, <<>>, FALSE)

Lte(column, value) ==
    Node("cmp", column, "<=", <<value>>, <<>>, FALSE)

In(column, values) ==
    Node("in", column, "", values, <<>>, FALSE)

NotIn(column, values) ==
    Node("in", column, "", values, <<>>, TRUE)

Like(column, pattern) ==
    Node("like", column, "", <<pattern>>, <<>>, FALSE)

ILike(column, pattern) ==
    Node("like", column, "", <<pattern>>, <<>>, TRUE)

Between(column, from, to) ==
    Node("between", column, "", <<from, to>>, <<>>, FALSE)

IsNull(column) ==
    Node("null", column, "", <<>>, <<>>, FALSE)

IsNotNull(column) ==
    Node("null", column, "", <<>>, <<>>, TRUE)

And(specs) ==
    Node("and", "", "", <<>>, specs, FALSE)

Or(specs) ==
    Node("or", "", "", <<>>, specs, FALSE)

Not(spec) ==
    Node("not", "", "", <<>>, <<spec>>, FALSE)

(* Raw, with the text of the fragment kept as its tokens: a $i of the fragment is the
   token Ph("$", i); the tokens are held in the field specs *)
RawTokens(toks, args) ==
    Node("raw", "", "", args, toks, FALSE)

Res(sql, args, next) ==
    [sql |-> sql, args |-> args, next |-> next]

(* inSpec.ToSQL: the placeholder list of a non-empty IN *)
RECURSIVE InPlaceholders(_, _, _)
InPlaceholders(d, offset, n) ==
    IF n = 0 THEN <<>>
    ELSE InPlaceholders(d, offset, n - 1) \o
         (IF n = 1 THEN <<>> ELSE <<W(",")>>) \o <<Placeholder(d, offset + n - 1)>>

(* inSpec.ToSQL with the two literals of the empty list exchanged *)
InEmptyLiteralSwapped(negate) ==
    IF negate THEN "FALSE" ELSE "TRUE"

(* inSpec.ToSQL: the literal an empty value list compiles to *)
InEmptyLiteral(negate) ==
    IF negate THEN "TRUE" ELSE "FALSE"

(* joinSpecs with the parentheses around each part left out *)
JoinPartBare(sql) ==
    sql

(* joinSpecs: one part of two or more, "(" + sql + ")" *)
JoinPart(sql) ==
    Paren(sql)

(* joinSpecs with the running offset replaced by the starting offset *)
JoinChildOffsetStale(offset, current) ==
    offset

(* joinSpecs: the offset handed to the next child *)
JoinChildOffset(offset, current) ==
    current

RECURSIVE ToSQL(_, _, _)
RECURSIVE JoinLoop(_, _, _, _, _, _, _)

(* the loop of joinSpecs over specs[i..], with the parts, args and offset so far *)
JoinLoop(specs, sep, d, offset, i, acc, current) ==
    IF i > Len(specs) THEN Res(Join(acc.parts, <<W(sep)>>), acc.args, current)
    ELSE LET r == ToSQL(specs[i], d, JoinChildOffset(offset, current))
         IN  JoinLoop(specs, sep, d, offset, i + 1,
                      [parts |-> Append(acc.parts, JoinPart(r.sql)),
                       args |-> acc.args \o r.args],
                      r.next)

joinSpecs(specs, sep, empty, d, offset) ==
    IF Len(specs) = 0 THEN Res(<<W(empty)>>, <<>>, offset)
    ELSE IF Len(specs) = 1 THEN ToSQL(specs[1], d, offset)
    ELSE JoinLoop(specs, sep, d, offset, 1, [parts |-> <<>>, args |-> <<>>], offset)

ToSQL(s, d, offset) ==
    CASE s.kind = "cmp" ->
            Res(<<W(s.column), W(s.op), Placeholder(d, offset)>>, s.vals, offset + 1)
      [] s.kind = "in" ->
            IF Len(s.vals) = 0
            THEN Res(<<W(InEmptyLiteral(s.flag))>>, <<>>, offset)
            ELSE Res(<<W(s.column)>> \o (IF s.flag THEN <<W("NOT"), W("IN")>> ELSE <<W("IN")>>)
                        \o Paren(InPlaceholders(d, offset, Len(s.vals))),
                     s.vals, offset + Len(s.vals))
      [] s.kind = "like" ->
            Res(<<W(s.column), W(IF s.flag THEN ILikeOp(d) ELSE "LIKE"), Placeholder(d, offset)>>,
                s.vals, offset + 1)
      [] s.kind = "between" ->
            Res(<<W(s.column), W("BETWEEN"), Placeholder(d, offset), W("AND"),
                  Placeholder(d, offset + 1)>>, s.vals, offset + 2)
      [] s.kind = "null" ->
            Res(<<W(s.column), W("IS")>> \o (IF s.flag THEN <<W("NOT")>> ELSE <<>>) \o <<W("NULL")>>,
                <<>>, offset)
      [] s.kind = "raw" ->
            Res([i \in 1..Len(s.specs) |->
                    IF IsPh(s.specs[i]) THEN Placeholder(d, offset + s.specs[i].n - 1)
                    ELSE s.specs[i]],
                s.vals, offset + Len(s.vals))
      [] s.kind = "and" -> joinSpecs(s.specs, "AND", "TRUE", d, offset)
      [] s.kind = "or" -> joinSpecs(s.specs, "OR", "FALSE", d, offset)
      [] s.kind = "not" ->
            LET r == ToSQL(s.specs[1], d, offset)
            IN  Res(<<W("NOT")>> \o Paren(r.sql), r.args, r.next)

----------------------------------------------------------------------------
(* Raw fragments (spec.go).  The text of a raw fragment is modelled as the  *)
(* sequence of its characters, and strings.ReplaceAll on it.                *)

DigitChars ==
    <<"0", "1", "2", "3", "4", "5", "6", "7", "8", "9">>

(* fmt.Sprintf("%d", n) for n >= 0 *)
RECURSIVE Digits(_)
Digits(n) ==
    IF n < 10 THEN <<DigitChars[n + 1]>>
    ELSE Digits(n \div 10) \o <<DigitChars[(n % 10) + 1]>>

HasPrefixAt(s, i, p) ==
    /\ i + Len(p) - 1 <= Len(s)
    /\ SubSeq(s, i, i + Len(p) - 1) = p

(* the least element of a non-empty set of numbers *)
Least(S) ==
    CHOOSE x \in S : \A y \in S : x <= y

(* strings.ReplaceAll from position i on: the text up to the next occurrence of old is
   kept, the occurrence replaced, and the search goes on behind it (occurrences do not
   overlap) *)
RECURSIVE ReplaceAllFrom(_, _, _, _)
ReplaceAllAt(s, i, old, new, hits) ==
    IF hits = {} THEN SubSeq(s, i, Len(s))
    ELSE SubSeq(s, i, Least(hits) - 1) \o new
         \o ReplaceAllFrom(s, Least(hits) + Len(old), old, new)

ReplaceAllFrom(s, i, old, new) ==
    ReplaceAllAt(s, i, old, new, {p \in i..Len(s) : HasPrefixAt(s, p, old)})

ReplaceAll(s, old, new) ==
    ReplaceAllFrom(s, 1, old, new)

(* Raw *)
Raw(sql, args) ==
    [sql |-> sql, args |-> args]

(* fmt.Sprintf("$%d", i) *)
RawOld(i) ==
    <<"$">> \o Digits(i)

(* fmt.Sprintf("__RAW_%d__", i) *)
RawIntermediate(i) ==
    <<"_", "_", "R", "A", "W", "_">> \o Digits(i) \o <<"_", "_">>

(* the characters of Dialect.Placeholder(n) *)
PlaceholderText(d, n) ==
    IF d = "postgres" THEN <<"$">> \o Digits(n) ELSE <<"?">>

(* rawSpec.ToSQL: the first loop, for i := len(args); i >= 1; i-- *)
RECURSIVE RawFirstPass(_, _)
RawFirstPass(sql, i) ==
    IF i < 1 THEN sql
    ELSE RawFirstPass(ReplaceAll(sql, RawOld(i), RawIntermediate(i)), i - 1)

(* rawSpec.ToSQL: the second loop, for i := 1; i <= len(args); i++ *)
RECURSIVE RawSecondPass(_, _, _, _, _)
RawSecondPass(sql, d, offset, i, k) ==
    IF i > k THEN sql
    ELSE RawSecondPass(ReplaceAll(sql, RawIntermediate(i), PlaceholderText(d, offset + i - 1)),
                       d, offset, i + 1, k)

(* rawSpec.ToSQL *)
RawToSQL(s, d, offset) ==
    Res(RawSecondPass(RawFirstPass(s.sql, Len(s.args)), d, offset, 1, Len(s.args)),
        s.args, offset + Len(s.args))

----------------------------------------------------------------------------
(* The store: evaluation of the statements the library issues.             *)
(* A row is a record column -> integer; Null stands for SQL NULL.  WHERE   *)
(* clauses are parsed from the token sequence with SQL's precedence        *)
(* (NOT over AND over OR) and evaluated in three-valued logic.             *)

Null ==
    0 - 1

Tok(t, i) ==
    IF i >= 1 /\ i <= Len(t) THEN t[i].s ELSE ""

(* the argument bound to the placeholder at position i of statement t *)
PhArg(t, a, i) ==
    IF t[i].s = "$" THEN a[t[i].n]
    ELSE a[Cardinality({j \in 1..i : IsPh(t[j])})]

Tri(b) ==
    IF b THEN "T" ELSE "F"

TriNot(v) ==
    CASE v = "T" -> "F" [] v = "F" -> "T" [] OTHER -> "U"

TriAnd(x, y) ==
    IF x = "F" \/ y = "F" THEN "F" ELSE IF x = "T" /\ y = "T" THEN "T" ELSE "U"

TriOr(x, y) ==
    IF x = "T" \/ y = "T" THEN "T" ELSE IF x = "F" /\ y = "F" THEN "F" ELSE "U"

CmpVal(op, x, y) ==
    IF x = Null \/ y = Null THEN "U"
    ELSE CASE op = "=" -> Tri(x = y)
           [] op = "!=" -> Tri(x # y)
           [] op = ">" -> Tri(x > y)
           [] op = ">=" -> Tri(x >= y)
           [] op = "<" -> Tri(x < y)
           [] op = "<=" -> Tri(x <= y)
           [] op = "LIKE" -> Tri(x = y)
           [] op = "ILIKE" -> Tri(x = y)

PV(v, i) ==
    [v |-> v, i |-> i]

(* col IN ( ph , ph ... ) starting at the first placeholder; returns the value and the
   position after the closing parenthesis *)
RECURSIVE EvalInList(_, _, _, _, _)
EvalInList(t, a, x, i, acc) ==
    LET here == TriOr(acc, CmpVal("=", x, PhArg(t, a, i)))
    IN  IF Tok(t, i + 1) = "," THEN EvalInList(t, a, x, i + 2, here)
        ELSE PV(here, i + 2)

RECURSIVE ParseOr(_, _, _, _)
RECURSIVE ParseOrRest(_, _, _, _)
RECURSIVE ParseAnd(_, _, _, _)
RECURSIVE ParseAndRest(_, _, _, _)
RECURSIVE ParseNot(_, _, _, _)
RECURSIVE ParsePrimary(_, _, _, _)

ParsePrimary(t, a, r, i) ==
    CASE Tok(t, i) = "(" ->
            LET e == ParseOr(t, a, r, i + 1) IN PV(e.v, e.i + 1)
      [] Tok(t, i) = "TRUE" -> PV("T", i + 1)
      [] Tok(t, i) = "FALSE" -> PV("F", i + 1)
      [] OTHER ->
            LET x == r[Tok(t, i)]
                w == Tok(t, i + 1)
            IN  CASE w = "IS" ->
                        IF Tok(t, i + 2) = "NOT" THEN PV(Tri(x # Null), i + 4)
                        ELSE PV(Tri(x = Null), i + 3)
                  [] w = "IN" -> EvalInList(t, a, x, i + 3, "F")
                  [] w = "NOT" ->
                        LET e == EvalInList(t, a, x, i + 4, "F") IN PV(TriNot(e.v), e.i)
                  [] w = "BETWEEN" ->
                        PV(TriAnd(CmpVal(">=", x, PhArg(t, a, i + 2)),
                                  CmpVal("<=", x, PhArg(t, a, i + 4))), i + 5)
                  [] OTHER -> PV(CmpVal(w, x, PhArg(t, a, i + 2)), i + 3)

ParseNot(t, a, r, i) ==
    IF Tok(t, i) = "NOT"
    THEN LET e == ParseNot(t, a, r, i + 1) IN PV(TriNot(e.v), e.i)
    ELSE ParsePrimary(t, a, r, i)

ParseAndRest(t, a, r, left) ==
    IF Tok(t, left.i) = "AND"
    THEN LET e == ParseNot(t, a, r, left.i + 1)
         IN  ParseAndRest(t, a, r, PV(TriAnd(left.v, e.v), e.i))
    ELSE left

ParseAnd(t, a, r, i) ==
    ParseAndRest(t, a, r, ParseNot(t, a, r, i))

ParseOrRest(t, a, r, left) ==
    IF Tok(t, left.i) = "OR"
    THEN LET e == ParseAnd(t, a, r, left.i + 1)
         IN  ParseOrRest(t, a, r, PV(TriOr(left.v, e.v), e.i))
    ELSE left

ParseOr(t, a, r, i) ==
    ParseOrRest(t, a, r, ParseAnd(t, a, r, i))

(* position of the first token w in t, 0 when absent *)
IndexOf(t, w) ==
    IF \E i \in 1..Len(t) : t[i].s = w
    THEN CHOOSE i \in 1..Len(t) : t[i].s = w /\ \A j \in 1..(i - 1) : t[j].s # w
    ELSE 0

(* the rows of R that satisfy the WHERE clause of statement t (all rows when it has none) *)
Matching(t, a, R) ==
    LET iw == IndexOf(t, "WHERE")
    IN  IF iw = 0 THEN R ELSE {r \in R : ParseOr(t, a, r, iw + 1).v = "T"}

(* the ORDER BY list of statement t, read from position i *)
RECURSIVE ParseOrder(_, _)
ParseOrder(t, i) ==
    LET o == <<[column |-> Tok(t, i), dir |-> Tok(t, i + 1)]>>
    IN  IF Tok(t, i + 2) = "," THEN o \o ParseOrder(t, i + 3) ELSE o

OrderOf(t) ==
    LET io == IndexOf(t, "ORDER")
    IN  IF io = 0 THEN <<>> ELSE ParseOrder(t, io + 2)

(* r1 sorts strictly before r2 under ORDER BY orders *)
RECURSIVE SortsBefore(_, _, _)
SortsBefore(r1, r2, orders) ==
    IF Len(orders) = 0 THEN FALSE
    ELSE LET o == Head(orders)
             x == r1[o.column]
             y == r2[o.column]
         IN  IF x = y THEN SortsBefore(r1, r2, Tail(orders))
             ELSE IF o.dir = "ASC" THEN x < y ELSE x > y

(* every sequence the store may return for the rows R under ORDER BY orders: ties are
   returned in any order *)
RECURSIVE SortedSeqs(_, _)
SortedSeqs(R, orders) ==
    IF R = {} THEN {<<>>}
    ELSE UNION { {<<m>> \o rest : rest \in SortedSeqs(R \ {m}, orders)} :
                 m \in {x \in R : \A y \in R : ~SortsBefore(y, x, orders)} }

Take(seq, n) ==
    IF n >= Len(seq) THEN seq ELSE SubSeq(seq, 1, n)

Drop(seq, n) ==
    IF n >= Len(seq) THEN <<>> ELSE SubSeq(seq, n + 1, Len(seq))

(* the possible results of a SELECT statement t with arguments a over the rows R *)
RunSelect(t, a, R) ==
    LET il == IndexOf(t, "LIMIT")
        io == IndexOf(t, "OFFSET")
        off == IF io = 0 THEN 0 ELSE PhArg(t, a, io + 1)
    IN  { IF il = 0 THEN Drop(s, off) ELSE Take(Drop(s, off), PhArg(t, a, il + 1)) :
          s \in SortedSeqs(Matching(t, a, R), OrderOf(t)) }

----------------------------------------------------------------------------
(* Schema descriptors (schema.go)                                          *)

Table(name, pk, columns, version, softDelete) ==
    [Name |-> name, PrimaryKey |-> pk, Columns |-> columns,
     VersionColumn |-> version, SoftDelete |-> softDelete,
     CreatedAt |-> "", UpdatedAt |-> ""]

Words(names) ==
    [i \in 1..Len(names) |-> <<W(names[i])>>]

selectFrom(t) ==
    <<W("SELECT")>> \o Join(Words(t.Columns), <<W(",")>>) \o <<W("FROM"), W(t.Name)>>

selectWhere(t, condition) ==
    selectFrom(t) \o <<W("WHERE")>> \o condition

SeqSet(seq) ==
    {seq[i] : i \in 1..Len(seq)}

RECURSIVE Concat(_)
Concat(parts) ==
    IF Len(parts) = 0 THEN <<>> ELSE Head(parts) \o Concat(Tail(parts))

(* Table.deleteSQL: the WHERE conjunction over the primary-key columns *)
PKWhere(t, d) ==
    Join([i \in 1..Len(t.PrimaryKey) |->
            <<W(t.PrimaryKey[i]), W("="), Placeholder(d, i)>>], <<W("AND")>>)

(* Table.deleteSQL: the statement of a table without a soft-delete column *)
deleteSQLHard(t, d) ==
    <<W("DELETE"), W("FROM"), W(t.Name), W("WHERE")>> \o PKWhere(t, d)

Now(d) ==
    IF d = "sqlite" THEN "datetime('now')" ELSE "NOW()"

deleteSQL(t, d) ==
    IF t.SoftDelete # ""
    THEN <<W("UPDATE"), W(t.Name), W("SET"), W(t.SoftDelete), W("="), W(Now(d)), W("WHERE")>>
         \o PKWhere(t, d) \o <<W("AND"), W(t.SoftDelete), W("IS"), W("NULL")>>
    ELSE deleteSQLHard(t, d)

----------------------------------------------------------------------------
(* Dialects: UpsertSQL.  The statement is kept as its clauses: the INSERT  *)
(* column list and value list, the conflict clause, the SET list (each     *)
(* entry a column and the kind of its right-hand side) and the guard.      *)

UpsertOptions(t) ==
    [VersionColumn |-> t.VersionColumn, CreatedAt |-> t.CreatedAt, UpdatedAt |-> t.UpdatedAt]

(* the loop over columns that builds setClauses, and the updated-at clause *)
SetClauses(pks, columns, opts) ==
    Concat([i \in 1..Len(columns) |->
              IF columns[i] \in SeqSet(pks) THEN <<>>
              ELSE IF columns[i] = opts.VersionColumn /\ opts.VersionColumn # ""
                   THEN <<[col |-> columns[i], rhs |-> "+1"]>>
                   ELSE <<[col |-> columns[i], rhs |-> "EXCLUDED"]>>])
    \o (IF opts.UpdatedAt # "" THEN <<[col |-> opts.UpdatedAt, rhs |-> "NOW"]>> ELSE <<>>)

(* the version guard of the conflict clause: Postgres and SQLite append
   WHERE version = EXCLUDED.version, MySQL's ON DUPLICATE KEY UPDATE has none *)
UpsertGuard(d, opts) ==
    IF d = "mysql" THEN "" ELSE opts.VersionColumn

UpsertSQL(d, table, pks, columns, opts) ==
    LET stamps == (IF opts.CreatedAt # "" THEN <<opts.CreatedAt>> ELSE <<>>)
                  \o (IF opts.UpdatedAt # "" THEN <<opts.UpdatedAt>> ELSE <<>>)
        sets == SetClauses(pks, columns, opts)
    IN  [verb |-> IF d = "mysql" /\ Len(sets) = 0 THEN "INSERT IGNORE" ELSE "INSERT",
         table |-> table,
         insertCols |-> columns \o stamps,
         valuePh |-> [i \in 1..Len(columns) |-> Placeholder(d, i)]
                     \o [i \in 1..Len(stamps) |-> W(Now(d))],
         conflict |-> IF d = "mysql"
                      THEN (IF Len(sets) = 0 THEN "" ELSE "ON DUPLICATE KEY UPDATE")
                      ELSE "ON CONFLICT DO UPDATE SET",
         target |-> pks,
         setClauses |-> sets,
         guard |-> UpsertGuard(d, opts)]

(* Table.upsertSQL *)
upsertSQL(t, d) ==
    UpsertSQL(d, t.Name, t.PrimaryKey, t.Columns, UpsertOptions(t))

----------------------------------------------------------------------------
(* The store: execution of the write statements                            *)

NowValue ==
    1

ExecResult(R, affected) ==
    [rows |-> R, affected |-> affected, err |-> ""]

ExecError(R, e) ==
    [rows |-> R, affected |-> 0, err |-> e]

SamePK(r1, r2, pks) ==
    \A c \in SeqSet(pks) : r1[c] = r2[c]

(* INSERT ... with its conflict clause, on the rows R of a table whose columns are cols.
   Affected rows: 1 for an insert; for a conflicting row 1 when updated and 0 when the
   guard rejects it (Postgres, SQLite), 2 when changed and 0 when left as it was or
   ignored (MySQL). *)
ExecUpsert(d, u, a, R, cols) ==
    LET pos(c) == CHOOSE i \in 1..Len(u.insertCols) : u.insertCols[i] = c
        val(c) == IF IsPh(u.valuePh[pos(c)]) THEN a[pos(c)] ELSE NowValue
        new == [c \in cols |-> IF c \in SeqSet(u.insertCols) THEN val(c) ELSE Null]
        hit == {r \in R : SamePK(r, new, u.target)}
    IN  IF hit = {} THEN ExecResult(R \cup {new}, 1)
        ELSE LET old == CHOOSE r \in hit : TRUE
                 rhs(c) == LET k == CHOOSE i \in 1..Len(u.setClauses) : u.setClauses[i].col = c
                           IN  CASE u.setClauses[k].rhs = "+1" -> old[c] + 1
                                 [] u.setClauses[k].rhs = "NOW" -> NowValue
                                 [] OTHER -> new[c]
                 upd == [c \in cols |->
                           IF \E i \in 1..Len(u.setClauses) : u.setClauses[i].col = c
                           THEN rhs(c) ELSE old[c]]
             IN  IF u.conflict = "" THEN ExecResult(R, 0)
                 ELSE IF u.guard # "" /\ old[u.guard] # new[u.guard] THEN ExecResult(R, 0)
                 ELSE IF d = "mysql"
                      THEN ExecResult((R \ {old}) \cup {upd}, IF upd = old THEN 0 ELSE 2)
                      ELSE ExecResult((R \ {old}) \cup {upd}, 1)

(* DELETE FROM t WHERE ... / UPDATE t SET col = now WHERE ... *)
ExecDeleteOf(t, R, hit) ==
    IF Tok(t, 1) = "DELETE" THEN ExecResult(R \ hit, Cardinality(hit))
    ELSE ExecResult((R \ hit) \cup {[r EXCEPT ![Tok(t, 4)] = NowValue] : r \in hit},
                    Cardinality(hit))

ExecDelete(t, a, R) ==
    ExecDeleteOf(t, R, Matching(t, a, R))

----------------------------------------------------------------------------
(* Drivers: the version check                                              *)

(* checkVersion that never looks at the affected rows *)
checkVersionIgnoring(t, affected, rowsErr) ==
    ""

(* simpleDriver.checkVersion / compositeDriver.checkVersion: the error returned, "" for
   nil; rowsErr says that result.RowsAffected() itself fails *)
checkVersion(t, affected, rowsErr) ==
    IF t.VersionColumn = "" THEN ""
    ELSE IF rowsErr THEN "rows affected failed"
    ELSE IF affected = 0 THEN "ErrConcurrentModification"
    ELSE ""

(* simpleDriver.values / CompositeValues.Root: the aggregate's values in column order *)
Values(columns, agg) ==
    [i \in 1..Len(columns) |-> agg[columns[i]]]

----------------------------------------------------------------------------
(* Cursor codec and keyset predicate                                       *)

EmptyMap ==
    [c \in {} |-> 0]

(* a Go map lookup: the zero value (nil) for a missing key *)
MapGet(m, c) ==
    IF c \in DOMAIN m THEN m[c] ELSE Null

(* A cursor token is described by what the decoder sees: whether the text is URL-safe
   base64, whether the payload is a JSON object, the object's "v" member, and whether
   the text is the empty string (text = ""). *)
Token(b64, json, v) ==
    [b64 |-> b64, json |-> json, v |-> v, text |-> "x"]

(* the empty string: base64 of no bytes, which are not a JSON text *)
EmptyToken ==
    [b64 |-> TRUE, json |-> FALSE, v |-> EmptyMap, text |-> ""]

(* EncodeCursor: json.Marshal of {"v": values}, then base64.URLEncoding *)
EncodeCursor(values) ==
    Token(TRUE, TRUE, values)

(* DecodeCursor that ignores the error of json.Unmarshal *)
DecodeCursorIgnoringJSON(tok) ==
    IF ~tok.b64 THEN [err |-> "ErrInvalidCursor", Values |-> EmptyMap]
    ELSE [err |-> "", Values |-> tok.v]

(* DecodeCursor: JSON numbers come back as float64, which is exact for every integer
   of the model (|v| <= 2^53) *)
DecodeCursor(tok) ==
    IF ~tok.b64 THEN [err |-> "ErrInvalidCursor", Values |-> EmptyMap]
    ELSE IF ~tok.json THEN [err |-> "ErrInvalidCursor", Values |-> EmptyMap]
    ELSE [err |-> "", Values |-> tok.v]

(* A Go value with its dynamic type: string, int64, float64, bool, or nil *)
GoValue(t, v) ==
    [t |-> t, v |-> v]

(* A JSON value: string, number, true/false, or null *)
JSONValue(j, v) ==
    [j |-> j, v |-> v]

(* json.Marshal of a value held in an any *)
Marshal(x) ==
    CASE x.t = "string" -> JSONValue("string", x.v)
      [] x.t \in {"int64", "float64"} -> JSONValue("number", x.v)
      [] x.t = "bool" -> JSONValue("bool", x.v)
      [] x.t = "nil" -> JSONValue("null", x.v)

(* json.Unmarshal into an any: every JSON number becomes a float64 *)
Unmarshal(y) ==
    CASE y.j = "string" -> GoValue("string", y.v)
      [] y.j = "number" -> GoValue("float64", y.v)
      [] y.j = "bool" -> GoValue("bool", y.v)
      [] y.j = "null" -> GoValue("nil", y.v)

(* EncodeCursor of a cursor whose values carry their Go types *)
EncodeCursorTyped(values) ==
    EncodeCursor([c \in DOMAIN values |-> Marshal(values[c])])

(* DecodeCursor, with the Go types of the values of the map it returns *)
DecodeCursorTyped(tok) ==
    [err |-> DecodeCursor(tok).err,
     Values |-> [c \in DOMAIN DecodeCursor(tok).Values |-> Unmarshal(DecodeCursor(tok).Values[c])]]

(* buildKeysetSpec with the comparison direction ignoring the paging direction *)
KeysetUseGtForwardOnly(dir, forward) ==
    dir = "ASC"

(* buildKeysetSpec: useGt *)
KeysetUseGt(dir, forward) ==
    (dir = "ASC" /\ forward) \/ (dir = "DESC" /\ ~forward)

(* buildKeysetSpec with the equalities on the leading columns left out *)
KeysetAlternativeBare(orders, values, forward, i) ==
    LET col == orders[i]
        val == MapGet(values, col.column)
    IN  IF KeysetUseGt(col.dir, forward) THEN Gt(col.column, val) ELSE Lt(col.column, val)

(* buildKeysetSpec: alternative i (1-based) of the OR *)
KeysetAlternative(orders, values, forward, i) ==
    LET eqs == [j \in 1..(i - 1) |-> Eq(orders[j].column, MapGet(values, orders[j].column))]
        col == orders[i]
        val == MapGet(values, col.column)
        andParts == Append(eqs, IF KeysetUseGt(col.dir, forward)
                                THEN Gt(col.column, val) ELSE Lt(col.column, val))
    IN  IF Len(andParts) = 1 THEN andParts[1] ELSE And(andParts)

buildKeysetSpec(orders, values, forward) ==
    LET n == Len(orders)
        orParts == [i \in 1..n |-> KeysetAlternative(orders, values, forward, i)]
    IN  IF n = 0 THEN NilSpec
        ELSE IF Len(orParts) = 1 THEN orParts[1]
        ELSE Or(orParts)

----------------------------------------------------------------------------
(* Query builder                                                           *)

NoInt ==
    [set |-> FALSE, n |-> 0]

SomeInt(n) ==
    [set |-> TRUE, n |-> n]

DefaultPageSize ==
    20

(* Repository.Query *)
NewQuery ==
    [specs |-> <<>>, orderCols |-> <<>>, limit |-> NoInt, offset |-> NoInt,
     pageSize |-> NoInt, cursor |-> EmptyToken, forward |-> TRUE]

(* Repository.withSoftDelete handing the caller's spec through unchanged *)
withSoftDeleteOff(t, s) ==
    s

(* Repository.withSoftDelete *)
withSoftDelete(t, s) ==
    IF t.SoftDelete = "" THEN s
    ELSE IF s = NilSpec THEN IsNull(t.SoftDelete)
    ELSE And(<<IsNull(t.SoftDelete), s>>)

combinedSpec(qq) ==
    IF Len(qq.specs) = 0 THEN NilSpec
    ELSE IF Len(qq.specs) = 1 THEN qq.specs[1]
    ELSE And(qq.specs)

(* ensurePKOrder without the primary-key tie-break *)
AppendMissingPKNever(orders, pks, existing) ==
    orders

RECURSIVE AppendMissingPK(_, _, _)
AppendMissingPK(orders, pks, existing) ==
    IF Len(pks) = 0 THEN orders
    ELSE IF Head(pks) \in existing THEN AppendMissingPK(orders, Tail(pks), existing)
    ELSE AppendMissingPK(Append(orders, [column |-> Head(pks), dir |-> "ASC"]),
                         Tail(pks), existing)

(* ensurePKOrder putting the missing primary-key columns ahead of the caller's clauses *)
ensurePKOrderAhead(qq, t) ==
    AppendMissingPK(<<>>, t.PrimaryKey,
                    {qq.orderCols[i].column : i \in 1..Len(qq.orderCols)})
    \o qq.orderCols

(* Query.ensurePKOrder: a copy of the builder's clauses with the missing primary-key
   columns appended *)
ensurePKOrder(qq, t) ==
    AppendMissingPK(qq.orderCols, t.PrimaryKey,
                    {qq.orderCols[i].column : i \in 1..Len(qq.orderCols)})

buildOrderSQL(orders) ==
    IF Len(orders) = 0 THEN <<>>
    ELSE <<W("ORDER"), W("BY")>> \o
         Join([i \in 1..Len(orders) |-> <<W(orders[i].column), W(orders[i].dir)>>], <<W(",")>>)

(* Query.Page with the look-ahead row left out of the LIMIT *)
PageFetchSizeNoLookahead(pageSize) ==
    pageSize

(* Query.Page: fetchSize *)
PageFetchSize(pageSize) ==
    pageSize + 1

(* Query.Page up to the call of findMany: the statement and its arguments, or the
   cursor error *)
PageStatement(qq, t, d) ==
    LET ps == IF qq.pageSize.set THEN qq.pageSize.n ELSE DefaultPageSize
        orders == ensurePKOrder(qq, t)
        spec0 == withSoftDelete(t, combinedSpec(qq))
        cur == DecodeCursor(qq.cursor)
        keysetSpec == buildKeysetSpec(orders, cur.Values, qq.forward)
        spec == IF qq.cursor = EmptyToken \/ keysetSpec = NilSpec THEN spec0
                ELSE IF spec0 # NilSpec THEN And(<<spec0, keysetSpec>>)
                ELSE keysetSpec
        c == IF spec # NilSpec THEN ToSQL(spec, d, 1) ELSE Res(<<>>, <<>>, 1)
        head == IF spec # NilSpec THEN selectWhere(t, c.sql) ELSE selectFrom(t)
    IN  [err |-> IF qq.cursor # EmptyToken THEN cur.err ELSE "",
         pageSize |-> ps,
         orders |-> orders,
         query |-> head \o buildOrderSQL(orders) \o <<W("LIMIT"), Placeholder(d, c.next)>>,
         args |-> Append(c.args, PageFetchSize(ps))]

(* the caller's extractor: the value of every column of the order list *)
Extract(orders, r) ==
    [c \in {orders[i].column : i \in 1..Len(orders)} |-> r[c]]

(* items[:high] panics with "slice bounds out of range" when high is negative *)
SliceBoundsOutOfRange(items, high) ==
    high < 0 \/ high > Len(items)

(* Query.Page after findMany returned items; panic says that trimming the look-ahead
   row panicked *)
PageOf(st, items) ==
    LET hasMore == Len(items) > st.pageSize
        panic == hasMore /\ SliceBoundsOutOfRange(items, Len(items) - 1)
        kept == IF hasMore /\ ~panic THEN SubSeq(items, 1, Len(items) - 1) ELSE items
    IN  [Items |-> kept,
         HasMore |-> hasMore,
         panic |-> panic,
         NextCursor |-> IF hasMore /\ Len(kept) > 0
                        THEN EncodeCursor(Extract(st.orders, kept[Len(kept)]))
                        ELSE EmptyToken]

----------------------------------------------------------------------------
(* Relations and the statements of the drivers                             *)

DeleteAndReinsert ==
    0

Upsert ==
    1

Relation(table, fk, pk, columns, onSave) ==
    [Table |-> table, ForeignKey |-> fk, PrimaryKey |-> pk, Columns |-> columns,
     OnSave |-> onSave]

deleteByFK(r, d) ==
    <<W("DELETE"), W("FROM"), W(r.Table), W("WHERE"), W(r.ForeignKey), W("="), Placeholder(d, 1)>>

(* Relation.upsertSQL *)
relationUpsertSQL(r, d) ==
    UpsertSQL(d, r.Table, <<r.PrimaryKey>>, r.Columns,
              [VersionColumn |-> "", CreatedAt |-> "", UpdatedAt |-> ""])

(* BatchInsertSQL with the numbering starting again in every row *)
BatchRowPlaceholdersPerRow(d, colCount, i) ==
    [j \in 1..colCount |-> Placeholder(d, j)]

(* BatchInsertSQL: the placeholders of the tuple of row i (1-based; the code's
   i*colCount + j + 1 for its 0-based i and j) *)
BatchRowPlaceholders(d, colCount, i) ==
    [j \in 1..colCount |-> Placeholder(d, (i - 1) * colCount + j)]

(* the statement is kept as its column list and its tuples; valuePh is the text of
   the placeholders of all tuples, left to right *)
BatchInsertSQL(d, table, columns, rowCount) ==
    [verb |-> "INSERT", table |-> table, insertCols |-> columns, rowCount |-> rowCount,
     tuples |-> [i \in 1..rowCount |-> BatchRowPlaceholders(d, Len(columns), i)],
     valuePh |-> Concat([i \in 1..rowCount |-> BatchRowPlaceholders(d, Len(columns), i)])]

(* INSERT INTO t (cols) VALUES (...), (...) on the rows R of a table with primary key pk:
   the statement fails as a whole when a key is already present *)
ExecInsert(u, a, R, pk) ==
    LET n == Len(u.insertCols)
        new(j) == [c \in SeqSet(u.insertCols) |->
                     a[(j - 1) * n + (CHOOSE i \in 1..n : u.insertCols[i] = c)]]
        batch == {new(j) : j \in 1..u.rowCount}
    IN  IF \/ \E r \in R, b \in batch : r[pk] = b[pk]
           \/ \E j, k \in 1..u.rowCount : j # k /\ new(j)[pk] = new(k)[pk]
        THEN ExecError(R, "duplicate key")
        ELSE ExecResult(R \cup batch, u.rowCount)

(* one ExecContext call of a driver: the statement, its arguments, whether checkVersion
   is applied to its result, and the prefix the driver wraps its error in *)
Stmt(kind, table, sql, args, check, wrap) ==
    [kind |-> kind, table |-> table, sql |-> sql, args |-> args, check |-> check, wrap |-> wrap]

(* the columns the store keeps for the root table *)
RootColumns(t) ==
    SeqSet(t.Columns) \cup (IF t.SoftDelete # "" THEN {t.SoftDelete} ELSE {})

RelationOf(c, table) ==
    CHOOSE i \in 1..Len(c.relations) : c.relations[i].Table = table

(* the rows of the table a statement names *)
TableRows(c, st, S) ==
    IF st.table = c.table.Name THEN S.root ELSE S.kids[st.table]

(* the tables S with the rows of the statement's table replaced by those of result r *)
StoreAfter(c, st, S, r) ==
    [store |-> IF st.table = c.table.Name THEN [S EXCEPT !.root = r.rows]
               ELSE [S EXCEPT !.kids[st.table] = r.rows],
     affected |-> r.affected,
     err |-> r.err]

(* the store executing one statement on the tables S *)
ExecStmt(c, st, S) ==
    StoreAfter(c, st, S,
        CASE st.kind = "upsert" ->
                ExecUpsert(c.dialect, st.sql, st.args, TableRows(c, st, S),
                           IF st.table = c.table.Name THEN RootColumns(c.table)
                           ELSE SeqSet(c.relations[RelationOf(c, st.table)].Columns))
          [] st.kind = "insert" ->
                ExecInsert(st.sql, st.args, TableRows(c, st, S),
                           c.relations[RelationOf(c, st.table)].PrimaryKey)
          [] OTHER -> ExecDelete(st.sql, st.args, TableRows(c, st, S)))

Verb(st) ==
    IF st.kind = "delete" THEN Tok(st.sql, 1) ELSE st.sql.verb

(* what a call looked like from outside: affected is the count its result reports *)
LogEntry(verb, table, sql, args, ok, on, affected) ==
    [verb |-> verb, table |-> table, sql |-> sql, args |-> args, ok |-> ok, on |-> on,
     affected |-> affected]

NoFault ==
    [at |-> 0, kind |-> "error"]

(* the database call number i fails (an error of the call, or the context cancelled) *)
Fails(f, i) ==
    f.at = i /\ f.kind \in {"error", "cancel"}

Wrap(st, e) ==
    IF st.wrap = "" THEN e ELSE st.wrap \o ": " \o e

(* one call of a driver: st is the statement, r what the store made of it.  The result
   is final when the call, the statement or the version check failed. *)
RunStep(c, st, S, i, f, on, log, r) ==
    IF Fails(f, i)
    THEN [store |-> S, log |-> Append(log, LogEntry(Verb(st), st.table, st.sql, st.args, FALSE, on, 0)),
          err |-> Wrap(st, IF f.kind = "cancel" THEN "context canceled" ELSE "exec failed"),
          final |-> TRUE]
    ELSE IF r.err # ""
    THEN [store |-> S, log |-> Append(log, LogEntry(Verb(st), st.table, st.sql, st.args, FALSE, on, 0)),
          err |-> Wrap(st, r.err), final |-> TRUE]
    ELSE [store |-> r.store,
          log |-> Append(log, LogEntry(Verb(st), st.table, st.sql, st.args, TRUE, on, r.affected)),
          err |-> IF st.check
                  THEN checkVersion(c.table, r.affected, f.at = i /\ f.kind = "rows")
                  ELSE "",
          final |-> FALSE]

(* the calls of a driver on one executor, in order, until one returns an error.  The
   calls are numbered from i; S is what the executor sees before the first of them and
   log holds the calls made so far. *)
RECURSIVE RunFrom(_, _, _, _, _, _, _)
RECURSIVE RunNext(_, _, _, _, _, _)
RunNext(c, stmts, i, f, on, step) ==
    IF step.final \/ step.err # "" THEN [store |-> step.store, log |-> step.log, err |-> step.err]
    ELSE RunFrom(c, stmts, step.store, i, f, on, step.log)

RunFrom(c, stmts, S, i, f, on, log) ==
    IF Len(stmts) = 0 THEN [store |-> S, log |-> log, err |-> ""]
    ELSE RunNext(c, Tail(stmts), i + 1, f, on,
                 RunStep(c, Head(stmts), S, i, f, on, log, ExecStmt(c, Head(stmts), S)))

Run(c, stmts, S, i, f, on) ==
    RunFrom(c, stmts, S, i, f, on, <<>>)

(* inTx that commits whatever fn returned *)
TxEndAlwaysCommit(err) ==
    "COMMIT"

(* inTx: how the transaction is ended after fn returned err *)
TxEnd(err) ==
    IF err # "" THEN "ROLLBACK" ELSE "COMMIT"

(* inTx after BeginTx succeeded and fn returned r *)
inTxEnd(P, f, r) ==
    IF TxEnd(r.err) = "ROLLBACK"
    THEN [store |-> P,
          log |-> <<LogEntry("BEGIN", "", <<>>, <<>>, TRUE, "db", 0)>> \o r.log
                  \o <<LogEntry("ROLLBACK", "", <<>>, <<>>, f.kind # "cancel", "tx", 0)>>,
          err |-> r.err]
    ELSE [store |-> IF Fails(f, Len(r.log) + 2) THEN P ELSE r.store,
          log |-> <<LogEntry("BEGIN", "", <<>>, <<>>, TRUE, "db", 0)>> \o r.log
                  \o <<LogEntry("COMMIT", "", <<>>, <<>>, ~Fails(f, Len(r.log) + 2), "tx", 0)>>,
          err |-> IF ~Fails(f, Len(r.log) + 2) THEN ""
                  ELSE IF f.kind = "cancel" THEN "context canceled" ELSE "commit failed"]

(* inTx: BeginTx is call 1, the calls of fn follow, Commit comes last.  P is the
   persisted store; a transaction that is not committed leaves it as it was. *)
inTx(c, stmts, P, f) ==
    IF Fails(f, 1)
    THEN [store |-> P, log |-> <<LogEntry("BEGIN", "", <<>>, <<>>, FALSE, "db", 0)>>,
          err |-> IF f.kind = "cancel" THEN "context canceled" ELSE "begin failed"]
    ELSE inTxEnd(P, f, Run(c, stmts, P, 2, f, "tx"))

----------------------------------------------------------------------------
(* Drivers: save and delete                                                *)

(* an aggregate: its root row and, per child table, its child rows in order *)
Aggregate(root, children) ==
    [root |-> root, children |-> children]

(* the mapping's decompose / values function *)
decompose(c, agg) ==
    [Root |-> Values(c.table.Columns, agg.root),
     Children |-> [tn \in DOMAIN agg.children |->
                     [j \in 1..Len(agg.children[tn]) |->
                        Values(c.relations[RelationOf(c, tn)].Columns, agg.children[tn][j])]]]

RootUpsert(c, cv) ==
    Stmt("upsert", c.table.Name, upsertSQL(c.table, c.dialect), cv.Root, TRUE, "")

(* compositeDriver.batchInsert: the rows flattened row by row *)
BatchInsertArgs(childRows) ==
    Concat(childRows)

(* saveWithChildren inserting the new children before deleting by foreign key *)
RelationSaveInsertFirst(c, rel, childRows, rootPK) ==
    IF rel.OnSave = DeleteAndReinsert
    THEN (IF Len(childRows) > 0
          THEN <<Stmt("insert", rel.Table,
                      BatchInsertSQL(c.dialect, rel.Table, rel.Columns, Len(childRows)),
                      Concat(childRows), FALSE, "insert children " \o rel.Table)>>
          ELSE <<>>)
         \o <<Stmt("delete", rel.Table, deleteByFK(rel, c.dialect), <<rootPK>>, FALSE,
                   "delete children " \o rel.Table)>>
    ELSE [j \in 1..Len(childRows) |->
            Stmt("upsert", rel.Table, relationUpsertSQL(rel, c.dialect), childRows[j], FALSE,
                 "upsert child " \o rel.Table)]

(* saveWithChildren: the statements of one relation *)
RelationSave(c, rel, childRows, rootPK) ==
    IF rel.OnSave = DeleteAndReinsert
    THEN <<Stmt("delete", rel.Table, deleteByFK(rel, c.dialect), <<rootPK>>, FALSE,
                "delete children " \o rel.Table)>>
         \o (IF Len(childRows) > 0
             THEN <<Stmt("insert", rel.Table,
                         BatchInsertSQL(c.dialect, rel.Table, rel.Columns, Len(childRows)),
                         BatchInsertArgs(childRows), FALSE, "insert children " \o rel.Table)>>
             ELSE <<>>)
    ELSE [j \in 1..Len(childRows) |->
            Stmt("upsert", rel.Table, relationUpsertSQL(rel, c.dialect), childRows[j], FALSE,
                 "upsert child " \o rel.Table)]

(* saveWithChildren writing the children before the root row *)
saveWithChildrenRootLast(c, cv) ==
    Concat([i \in 1..Len(c.relations) |->
              RelationSave(c, c.relations[i],
                           IF c.relations[i].Table \in DOMAIN cv.Children
                           THEN cv.Children[c.relations[i].Table] ELSE <<>>,
                           cv.Root[1])])
    \o <<RootUpsert(c, cv)>>

(* compositeDriver.saveWithChildren: the statements in the order they are issued *)
saveWithChildren(c, cv) ==
    <<RootUpsert(c, cv)>>
    \o Concat([i \in 1..Len(c.relations) |->
                 RelationSave(c, c.relations[i],
                              IF c.relations[i].Table \in DOMAIN cv.Children
                              THEN cv.Children[c.relations[i].Table] ELSE <<>>,
                              cv.Root[1])])

(* simpleDriver.save; exec names the executor: the database handle or the caller's
   transaction *)
simpleSave(c, exec, P, agg, f) ==
    Run(c, <<RootUpsert(c, decompose(c, agg))>>, P, 1, f, exec)

(* compositeDriver.save; hasDB says that the TxBeginner is not nil *)
compositeSaveOf(c, hasDB, exec, P, cv, f) ==
    IF Len(c.relations) # 0 /\ hasDB THEN inTx(c, saveWithChildren(c, cv), P, f)
    ELSE Run(c, IF Len(c.relations) = 0 THEN <<RootUpsert(c, cv)>>
                ELSE saveWithChildren(c, cv),
             P, 1, f, exec)

compositeSave(c, hasDB, exec, P, agg, f) ==
    compositeSaveOf(c, hasDB, exec, P, decompose(c, agg), f)

RootDelete(c, ids) ==
    Stmt("delete", c.table.Name, deleteSQL(c.table, c.dialect), ids, FALSE, "")

(* deleteWithChildren visiting the relations in declaration order *)
ChildDeleteOrderForward(k) ==
    [i \in 1..k |-> i]

(* deleteWithChildren: the loop for i := len(relations)-1; i >= 0; i-- *)
ChildDeleteOrder(k) ==
    [i \in 1..k |-> k + 1 - i]

deleteWithChildren(c, ids) ==
    [i \in 1..Len(c.relations) |->
       LET rel == c.relations[ChildDeleteOrder(Len(c.relations))[i]]
       IN  Stmt("delete", rel.Table, deleteByFK(rel, c.dialect), <<ids[1]>>, FALSE,
                "delete children " \o rel.Table)]
    \o <<RootDelete(c, ids)>>

(* simpleDriver.delete *)
simpleDelete(c, exec, P, ids, f) ==
    Run(c, <<RootDelete(c, ids)>>, P, 1, f, exec)

(* compositeDriver.delete *)
compositeDelete(c, hasDB, exec, P, ids, f) ==
    IF ~(c.table.SoftDelete # "" \/ Len(c.relations) = 0) /\ hasDB
    THEN inTx(c, deleteWithChildren(c, ids), P, f)
    ELSE Run(c, IF c.table.SoftDelete # "" \/ Len(c.relations) = 0
                THEN <<RootDelete(c, ids)>>
                ELSE deleteWithChildren(c, ids),
             P, 1, f, exec)

----------------------------------------------------------------------------
(* Drivers: findMany of the composite driver                               *)

(* Relation.batchSelectByFKs *)
batchSelectByFKs(r, d, count) ==
    <<W("SELECT")>> \o Join(Words(r.Columns), <<W(",")>>)
    \o <<W("FROM"), W(r.Table), W("WHERE"), W(r.ForeignKey), W("IN")>>
    \o Paren(InPlaceholders(d, 1, count))

(* Relation.fkColumnIndex falling back to the first column *)
fkColumnIndexOrFirst(r) ==
    IF \E i \in 1..Len(r.Columns) : r.Columns[i] = r.ForeignKey
    THEN CHOOSE i \in 1..Len(r.Columns) : r.Columns[i] = r.ForeignKey
    ELSE 1

(* Relation.fkColumnIndex, counted from 1: 0 stands for Go's -1 *)
fkColumnIndex(r) ==
    IF \E i \in 1..Len(r.Columns) : r.Columns[i] = r.ForeignKey
    THEN CHOOSE i \in 1..Len(r.Columns) : r.Columns[i] = r.ForeignKey
    ELSE 0

(* one QueryContext call as seen from outside *)
QueryEntry(table, sql, args, ok) ==
    LogEntry("SELECT", table, sql, args, ok, "db", 0)

(* what findMany has done so far: its calls, its error, the child prows it was handed per
   table in the order the store returned them *)
Loaded(log, err, kids) ==
    [log |-> log, err |-> err, kids |-> kids]

(* batchLoadChildren handing the query the first collected key only *)
BatchArgsFirstKey(ids) ==
    <<ids[1]>>

(* batchLoadChildren: args[i] = id for every collected key *)
BatchArgs(ids) ==
    ids

RECURSIVE batchLoadAll(_, _, _, _, _, _, _)

(* batchLoadChildren of relation i from the query on: call i + 1 of findMany *)
batchLoadQuery(c, ids, S, f, i, acc, query) ==
    IF Fails(f, i + 1)
    THEN {Loaded(Append(acc.log, QueryEntry(c.relations[i].Table, query, BatchArgs(ids), FALSE)),
                 IF f.kind = "cancel" THEN "context canceled" ELSE "query failed", acc.kids)}
    ELSE UNION { batchLoadAll(c, ids, S, f, i + 1,
                     Append(acc.log, QueryEntry(c.relations[i].Table, query, BatchArgs(ids), TRUE)),
                     [acc.kids EXCEPT ![c.relations[i].Table] = res]) :
                 res \in RunSelect(query, BatchArgs(ids), S.kids[c.relations[i].Table]) }

(* findMany: the loop over the relations, from relation i on, returning at the first error *)
batchLoadAll(c, ids, S, f, i, log, kids) ==
    IF i > Len(c.relations) THEN {Loaded(log, "", kids)}
    ELSE IF fkColumnIndex(c.relations[i]) = 0
    THEN {Loaded(log, "foreign key not found in columns", kids)}
    ELSE batchLoadQuery(c, ids, S, f, i, Loaded(log, "", kids),
                        batchSelectByFKs(c.relations[i], c.dialect, Len(ids)))

(* The key v of a row as Go values.  A mapping keeps integer keys (keys = "int64":
   the key is the integer v) or string keys (the key is the text "o" followed by the
   digits of v); for a string column the database driver hands Scan into *any either
   a string (keys = "string") or a []byte (keys = "[]byte"). *)
KeyKinds ==
    {"int64", "string", "[]byte"}

(* the text of the key v *)
KeyText(keys, v) ==
    IF keys = "int64" THEN Digits(v) ELSE <<"o">> \o Digits(v)

(* the caller's ExtractPK: the key of the snapshot as a string *)
ExtractPKString(keys, v) ==
    KeyText(keys, v)

(* the byte of a character of a key text: 'o' is 111, the digit d is 48 + d *)
ByteOf(ch) ==
    IF ch = "o" THEN 111
    ELSE 48 + (CHOOSE d \in 0..9 : DigitChars[d + 1] = ch)

(* fmt.Sprint of a []byte: the bytes in decimal between brackets *)
SprintBytes(text) ==
    <<"[">>
    \o Concat([i \in 1..Len(text) |->
                 (IF i > 1 THEN <<" ">> ELSE <<>>) \o Digits(ByteOf(text[i]))])
    \o <<"]">>

(* fmt.Sprint(rawValues[fkIdx]) for the foreign-key value v as the driver hands it over *)
Sprint(keys, v) ==
    IF keys = "[]byte" THEN SprintBytes(KeyText(keys, v)) ELSE KeyText(keys, v)

(* the child prows of one table that batchLoadChildren hands to the snapshot of parent
   id: those whose printed foreign key is a key of snapByID; the others are skipped *)
ChildrenOf(keys, rel, res, id) ==
    LET Owned(r) == Sprint(keys, r[rel.ForeignKey]) = ExtractPKString(keys, id)
    IN  SelectSeq(res, Owned)

(* what findMany returns: parents is the number of rows of the parent query *)
Found(log, err, items, parents) ==
    [log |-> log, err |-> err, items |-> items, parents |-> parents]

(* findMany: build over the snapshots, in the order of the parent rows *)
findManyBuild(c, prows, r) ==
    Found(r.log, r.err,
          IF r.err # "" THEN <<>>
          ELSE [i \in 1..Len(prows) |->
                  Aggregate(prows[i],
                      [tn \in {c.relations[j].Table : j \in 1..Len(c.relations)} |->
                         ChildrenOf(c.keys, c.relations[RelationOf(c, tn)], r.kids[tn],
                                    prows[i][c.table.PrimaryKey[1]])])],
          Len(prows))

(* findMany after the parent query returned rows *)
findManyRows(c, S, f, prows, entry) ==
    IF Len(c.relations) = 0
    THEN {Found(<<entry>>, "", [i \in 1..Len(prows) |-> Aggregate(prows[i], <<>>)], Len(prows))}
    ELSE IF Len(prows) = 0 THEN {Found(<<entry>>, "", <<>>, 0)}
    ELSE {findManyBuild(c, prows, r) :
          r \in batchLoadAll(c, [i \in 1..Len(prows) |-> prows[i][c.table.PrimaryKey[1]]], S, f, 1,
                             <<entry>>,
                             [tn \in {c.relations[j].Table : j \in 1..Len(c.relations)} |-> <<>>])}

(* compositeDriver.findMany: the possible results of the query st on the tables S; the
   parent query is call 1 *)
compositeFindMany(c, st, S, f) ==
    IF Fails(f, 1)
    THEN {Found(<<QueryEntry(c.table.Name, st.query, st.args, FALSE)>>,
                IF f.kind = "cancel" THEN "context canceled" ELSE "query failed", <<>>, 0)}
    ELSE UNION { findManyRows(c, S, f, prows,
                              QueryEntry(c.table.Name, st.query, st.args, TRUE)) :
                 prows \in RunSelect(st.query, st.args, S.root) }

----------------------------------------------------------------------------
(* Drivers: findOne, and findMany of the simple driver                     *)

(* Relation.selectByFK *)
selectByFK(r, d) ==
    <<W("SELECT")>> \o Join(Words(r.Columns), <<W(",")>>)
    \o <<W("FROM"), W(r.Table), W("WHERE"), W(r.ForeignKey), W("="), Placeholder(d, 1)>>

(* the error of a query that failed or whose context was cancelled *)
QueryError(f) ==
    IF f.kind = "cancel" THEN "context canceled" ELSE "query failed"

(* the mapping's ExtractPK: the key of the snapshot scanned from a root row *)
extractPK(c, snap) ==
    snap[c.table.PrimaryKey[1]]

(* simpleDriver.findOne: QueryRowContext and scan; the query is call 1 *)
simpleFindOne(c, st, S, f) ==
    IF Fails(f, 1)
    THEN {Found(<<QueryEntry(c.table.Name, st.query, st.args, FALSE)>>, QueryError(f), <<>>, 0)}
    ELSE {Found(<<QueryEntry(c.table.Name, st.query, st.args, TRUE)>>,
                IF Len(res) = 0 THEN "sql.ErrNoRows" ELSE "",
                IF Len(res) = 0 THEN <<>> ELSE <<Aggregate(res[1], <<>>)>>,
                IF Len(res) = 0 THEN 0 ELSE 1) :
          res \in RunSelect(st.query, st.args, S.root)}

(* simpleDriver.findMany *)
simpleFindMany(c, st, S, f) ==
    IF Fails(f, 1)
    THEN {Found(<<QueryEntry(c.table.Name, st.query, st.args, FALSE)>>, QueryError(f), <<>>, 0)}
    ELSE {Found(<<QueryEntry(c.table.Name, st.query, st.args, TRUE)>>, "",
                [i \in 1..Len(res) |-> Aggregate(res[i], <<>>)], Len(res)) :
          res \in RunSelect(st.query, st.args, S.root)}

RECURSIVE loadChildrenAll(_, _, _, _, _, _, _)

(* compositeDriver.loadChildren of relation i for the parent pk: call i + 1 of findOne *)
loadChildren(c, pk, S, f, i, acc, query) ==
    IF Fails(f, i + 1)
    THEN {Loaded(Append(acc.log, QueryEntry(c.relations[i].Table, query, <<pk>>, FALSE)),
                 QueryError(f), acc.kids)}
    ELSE UNION { loadChildrenAll(c, pk, S, f, i + 1,
                     Append(acc.log, QueryEntry(c.relations[i].Table, query, <<pk>>, TRUE)),
                     [acc.kids EXCEPT ![c.relations[i].Table] = res]) :
                 res \in RunSelect(query, <<pk>>, S.kids[c.relations[i].Table]) }

(* findOne: the loop over the relations, from relation i on, returning at the first error *)
loadChildrenAll(c, pk, S, f, i, log, kids) ==
    IF i > Len(c.relations) THEN {Loaded(log, "", kids)}
    ELSE loadChildren(c, pk, S, f, i, Loaded(log, "", kids),
                      selectByFK(c.relations[i], c.dialect))

(* findOne after the root row was scanned into the snapshot *)
findOneBuild(c, snap, r) ==
    Found(r.log, r.err, IF r.err # "" THEN <<>> ELSE <<Aggregate(snap, r.kids)>>, 1)

(* findOne after the root query returned prows *)
findOneRows(c, S, f, prows, entry) ==
    IF Len(prows) = 0 THEN {Found(<<entry>>, "sql.ErrNoRows", <<>>, 0)}
    ELSE {findOneBuild(c, prows[1], r) :
          r \in loadChildrenAll(c, extractPK(c, prows[1]), S, f, 1, <<entry>>,
                                [tn \in {c.relations[j].Table : j \in 1..Len(c.relations)} |-> <<>>])}

(* compositeDriver.findOne: the root query is call 1 *)
compositeFindOne(c, st, S, f) ==
    IF Fails(f, 1)
    THEN {Found(<<QueryEntry(c.table.Name, st.query, st.args, FALSE)>>, QueryError(f), <<>>, 0)}
    ELSE UNION { findOneRows(c, S, f, prows,
                             QueryEntry(c.table.Name, st.query, st.args, TRUE)) :
                 prows \in RunSelect(st.query, st.args, S.root) }

driverFindOne(c, st, S, f) ==
    IF c.driver = "simple" THEN simpleFindOne(c, st, S, f) ELSE compositeFindOne(c, st, S, f)

driverFindMany(c, st, S, f) ==
    IF c.driver = "simple" THEN simpleFindMany(c, st, S, f) ELSE compositeFindMany(c, st, S, f)

----------------------------------------------------------------------------
(* Repository facade                                                       *)

ArityError(t, ids) ==
    IF Len(ids) # Len(t.PrimaryKey) THEN "expected primary key value(s)" ELSE ""

buildPKSpec(t, ids) ==
    IF Len(ids) = 1 THEN Eq(t.PrimaryKey[1], ids[1])
    ELSE And([i \in 1..Len(t.PrimaryKey) |-> Eq(t.PrimaryKey[i], ids[i])])

RepositorySave(c, P, agg, f) ==
    IF c.driver = "simple" THEN simpleSave(c, "db", P, agg, f)
    ELSE compositeSave(c, TRUE, "db", P, agg, f)

(* the database calls a Save makes when none of them fails *)
CallsOfSave(c, agg) ==
    IF c.driver = "simple" \/ Len(c.relations) = 0 THEN 1
    ELSE Len(saveWithChildren(c, decompose(c, agg))) + 2

(* the database calls a Delete makes when none of them fails *)
CallsOfDelete(c, ids) ==
    IF ArityError(c.table, ids) # "" THEN 0
    ELSE IF c.driver = "simple" \/ c.table.SoftDelete # "" \/ Len(c.relations) = 0 THEN 1
    ELSE Len(c.relations) + 3

RepositoryDelete(c, P, ids, f) ==
    IF ArityError(c.table, ids) # ""
    THEN [store |-> P, log |-> <<>>, err |-> ArityError(c.table, ids)]
    ELSE IF c.driver = "simple" THEN simpleDelete(c, "db", P, ids, f)
    ELSE compositeDelete(c, TRUE, "db", P, ids, f)

(* Repository.SaveTx handing the driver the database handle as TxBeginner *)
RepositorySaveTxBeginning(c, T, agg, f) ==
    compositeSave(c, TRUE, "tx", T, agg, f)

(* Repository.SaveTx: the TxBeginner is nil, the executor is the caller's transaction,
   whose view of the tables is T *)
RepositorySaveTx(c, T, agg, f) ==
    IF c.driver = "simple" THEN simpleSave(c, "tx", T, agg, f)
    ELSE compositeSave(c, FALSE, "tx", T, agg, f)

(* the database calls a SaveTx makes when none of them fails *)
CallsOfSaveTx(c, agg) ==
    IF c.driver = "simple" \/ Len(c.relations) = 0 THEN 1
    ELSE Len(saveWithChildren(c, decompose(c, agg)))

(* Repository.DeleteTx *)
RepositoryDeleteTx(c, T, ids, f) ==
    IF ArityError(c.table, ids) # ""
    THEN [store |-> T, log |-> <<>>, err |-> ArityError(c.table, ids)]
    ELSE IF c.driver = "simple" THEN simpleDelete(c, "tx", T, ids, f)
    ELSE compositeDelete(c, FALSE, "tx", T, ids, f)

(* the database calls a DeleteTx makes when none of them fails *)
CallsOfDeleteTx(c, ids) ==
    IF ArityError(c.table, ids) # "" THEN 0
    ELSE IF c.driver = "simple" \/ c.table.SoftDelete # "" \/ Len(c.relations) = 0 THEN 1
    ELSE Len(c.relations) + 1

(* the condition of a read: the compiled spec, or nothing for a nil spec *)
Condition(s, d) ==
    IF s # NilSpec THEN ToSQL(s, d, 1) ELSE Res(<<>>, <<>>, 1)

FindStatement(t, d, ids) ==
    LET c == Condition(withSoftDelete(t, buildPKSpec(t, ids)), d)
    IN  [query |-> selectWhere(t, c.sql), args |-> c.args]

FindByStatement(t, d, s) ==
    LET sd == withSoftDelete(t, s)
        c == Condition(sd, d)
    IN  [query |-> IF sd # NilSpec THEN selectWhere(t, c.sql) ELSE selectFrom(t),
         args |-> c.args]

(* the statement of ExistsBy and of Query.Exists *)
ExistsStatement(t, d, s) ==
    LET sd == withSoftDelete(t, s)
        c == Condition(sd, d)
        head == <<W("SELECT"), W("EXISTS"), W("("), W("SELECT"), W("1"), W("FROM"), W(t.Name)>>
    IN  [query |-> IF sd # NilSpec THEN head \o <<W("WHERE")>> \o c.sql \o <<W(")")>>
                   ELSE head \o <<W(")")>>,
         args |-> c.args]

(* the statement of CountBy and of Query.Count *)
CountStatement(t, d, s) ==
    LET sd == withSoftDelete(t, s)
        c == Condition(sd, d)
        head == <<W("SELECT"), W("COUNT(*)"), W("FROM"), W(t.Name)>>
    IN  [query |-> IF sd # NilSpec THEN head \o <<W("WHERE")>> \o c.sql ELSE head,
         args |-> c.args]

(* Query.buildSQL numbering OFFSET like LIMIT *)
OffsetParamStale(limitSet, nextParam) ==
    nextParam

(* Query.buildSQL: nextParam when OFFSET is written, after nextParam++ of LIMIT *)
OffsetParam(limitSet, nextParam) ==
    IF limitSet THEN nextParam + 1 ELSE nextParam

(* Query.buildSQL *)
buildSQL(qq, t, d) ==
    LET sd == withSoftDelete(t, combinedSpec(qq))
        c == Condition(sd, d)
        head == IF sd # NilSpec THEN selectWhere(t, c.sql) ELSE selectFrom(t)
        np == OffsetParam(qq.limit.set, c.next)
    IN  [query |-> head
                   \o buildOrderSQL(qq.orderCols)
                   \o (IF qq.limit.set THEN <<W("LIMIT"), Placeholder(d, c.next)>> ELSE <<>>)
                   \o (IF qq.offset.set THEN <<W("OFFSET"), Placeholder(d, np)>> ELSE <<>>),
         args |-> c.args
                  \o (IF qq.limit.set THEN <<qq.limit.n>> ELSE <<>>)
                  \o (IF qq.offset.set THEN <<qq.offset.n>> ELSE <<>>)]

(* what a read hands back: the statement, the rows, the count or truth value *)
ReadResult(op, st, err, items, n) ==
    [op |-> op, query |-> st.query, args |-> st.args, err |-> err, items |-> items, n |-> n]

(* the rows a SELECT hands back, as the result of read op *)
Selected(op, st, R) ==
    {ReadResult(op, st, "", res, 0) : res \in RunSelect(st.query, st.args, R)}

(* the first row of a SELECT, or ErrNotFound *)
SelectedOne(op, st, R) ==
    {ReadResult(op, st, IF Len(res) = 0 THEN "ErrNotFound" ELSE "",
                IF Len(res) = 0 THEN <<>> ELSE <<res[1]>>, 0) :
     res \in RunSelect(st.query, st.args, R)}

(* SELECT EXISTS scanned into a bool *)
SelectedExists(op, st, R) ==
    {ReadResult(op, st, "", <<>>, IF Matching(st.query, st.args, R) # {} THEN 1 ELSE 0)}

(* SELECT COUNT scanned into an int64 *)
SelectedCount(op, st, R) ==
    {ReadResult(op, st, "", <<>>, Cardinality(Matching(st.query, st.args, R)))}

(* Repository.Find over the rows R: the possible results *)
Find(t, d, ids, R) ==
    IF ArityError(t, ids) # ""
    THEN {ReadResult("Find", [query |-> <<>>, args |-> <<>>], ArityError(t, ids), <<>>, 0)}
    ELSE SelectedOne("Find", FindStatement(t, d, ids), R)

FindBy(t, d, s, R) ==
    Selected("FindBy", FindByStatement(t, d, s), R)

ExistsBy(t, d, s, R) ==
    SelectedExists("ExistsBy", ExistsStatement(t, d, s), R)

CountBy(t, d, s, R) ==
    SelectedCount("CountBy", CountStatement(t, d, s), R)

QueryAll(qq, t, d, R) ==
    Selected("All", buildSQL(qq, t, d), R)

QueryFirst(qq, t, d, R) ==
    SelectedOne("First", buildSQL([qq EXCEPT !.limit = SomeInt(1)], t, d), R)

QueryCount(qq, t, d, R) ==
    SelectedCount("Count", CountStatement(t, d, combinedSpec(qq)), R)

QueryExists(qq, t, d, R) ==
    SelectedExists("Exists", ExistsStatement(t, d, combinedSpec(qq)), R)

(* the page made of the rows of the statement st *)
SelectedPage(st, R) ==
    {ReadResult("Page", st, "", PageOf(st, res).Items, 0) :
     res \in RunSelect(st.query, st.args, R)}

(* Query.Page with a cursor that decodes *)
QueryPage(qq, t, d, R) ==
    SelectedPage(PageStatement(qq, t, d), R)

(* Repository.FindBy on a mapping of the composite driver *)
FindByComposite(c, s, S, f) ==
    compositeFindMany(c, FindByStatement(c.table, c.dialect, s), S, f)

(* Repository.Find taking every error of findOne for a missing row *)
FindErrorAlwaysNotFound(err) ==
    "ErrNotFound"

(* Repository.Find: the error it returns for the error err of findOne *)
FindError(err) ==
    IF err = "sql.ErrNoRows" THEN "ErrNotFound" ELSE err

(* Repository.Find on the tables S, with the calls it made *)
RepositoryFind(c, ids, S, f) ==
    IF ArityError(c.table, ids) # ""
    THEN {Found(<<>>, ArityError(c.table, ids), <<>>, 0)}
    ELSE {Found(r.log, IF r.err # "" THEN FindError(r.err) ELSE "", r.items, r.parents) :
          r \in driverFindOne(c, FindStatement(c.table, c.dialect, ids), S, f)}

(* Query.First: what it returns for the result r of findMany *)
FirstOf(r) ==
    IF r.err # "" THEN Found(r.log, r.err, <<>>, r.parents)
    ELSE IF Len(r.items) = 0 THEN Found(r.log, "ErrNotFound", <<>>, r.parents)
    ELSE Found(r.log, "", <<r.items[1]>>, r.parents)

(* Query.First on the tables S, with the calls it made *)
First(c, qq, S, f) ==
    {FirstOf(r) :
     r \in driverFindMany(c, buildSQL([qq EXCEPT !.limit = SomeInt(1)], c.table, c.dialect), S, f)}

(* Repository.FindBy on the tables S, with the calls it made *)
RepositoryFindBy(c, s, S, f) ==
    driverFindMany(c, FindByStatement(c.table, c.dialect, s), S, f)

----------------------------------------------------------------------------
(* The idle values of each group of variables                              *)

NoKeyset ==
    [done |-> FALSE, spec |-> NilSpec, sql |-> <<>>, args |-> <<>>, match |-> "U"]

IdleKeyset ==
    /\ kin = [orders |-> <<>>, values |-> EmptyMap, forward |-> TRUE, row |-> EmptyMap]
    /\ kout = NoKeyset

NoPage ==
    [status |-> "none", err |-> "", Items |-> <<>>, HasMore |-> FALSE,
     NextCursor |-> EmptyToken, query |-> <<>>, args |-> <<>>, fetched |-> <<>>,
     pageSize |-> 0, sized |-> FALSE, orders |-> <<>>, forward |-> TRUE,
     cursor |-> EmptyToken]

IdlePage ==
    /\ rows = {}
    /\ q = NewQuery
    /\ page = NoPage
    /\ seen = <<>>
    /\ pc = "idle"

NoOut ==
    [done |-> FALSE, tree |-> NilSpec, offset |-> 0, sql |-> <<>>, args |-> <<>>, next |-> 0]

IdleCompile ==
    /\ tree = NilSpec
    /\ other = NilSpec
    /\ out = NoOut

NoRead ==
    [op |-> "", query |-> <<>>, args |-> <<>>, err |-> "", items |-> <<>>, n |-> 0]

NoLast ==
    [op |-> "", err |-> "", log |-> <<>>, before |-> [root |-> {}, kids |-> <<>>],
     agg |-> [root |-> <<>>, children |-> <<>>], ids |-> <<>>, read |-> NoRead,
     spec |-> NilSpec]

NoCodec ==
    [stage |-> "idle", cursor |-> <<>>, token |-> <<>>, err |-> "", Values |-> <<>>,
     queries |-> <<>>]

IdleCodec ==
    codec = NoCodec

IdleWrite ==
    /\ cfg = [driver |-> ""]
    /\ db = [root |-> {}, kids |-> <<>>]
    /\ wr = <<>>
    /\ last = NoLast

PageColumns ==
    {"id", "a", "b"}

----------------------------------------------------------------------------
(* Keyset behaviours: buildKeysetSpec applied to an order list over        *)
(* distinct columns and a cursor, and the predicate evaluated on a row.    *)

InitKeyset ==
    /\ IdleWrite
    /\ mode = "keyset"
    /\ IdleCodec
    /\ IdleCompile
    /\ IdlePage
    /\ \E fwd \in BOOLEAN, r \in [PageColumns -> 1..MaxVal] :
          kin = [orders |-> <<>>, values |-> EmptyMap, forward |-> fwd, row |-> r]
    /\ kout = NoKeyset

(* one more order clause on a column not yet used, with the cursor's value for it *)
AddOrder ==
    /\ mode = "keyset" /\ ~kout.done
    /\ \E c \in PageColumns \ DOMAIN kin.values, dir \in {"ASC", "DESC"}, v \in 1..MaxVal :
          kin' = [kin EXCEPT !.orders = Append(@, [column |-> c, dir |-> dir]),
                             !.values = [x \in DOMAIN kin.values \cup {c} |->
                                           IF x = c THEN v ELSE kin.values[x]]]
    /\ UNCHANGED <<mode, codec, writeVars, compileVars, pageVars, kout>>

(* buildKeysetSpec; a result that is not nil is compiled and evaluated by the store
   on the row *)
BuildKeyset ==
    /\ mode = "keyset" /\ ~kout.done
    /\ \E d \in Dialects :
          LET spec == buildKeysetSpec(kin.orders, kin.values, kin.forward)
              c == ToSQL(spec, d, 1)
          IN  kout' = IF spec = NilSpec
                      THEN [NoKeyset EXCEPT !.done = TRUE]
                      ELSE [done |-> TRUE, spec |-> spec, sql |-> c.sql, args |-> c.args,
                            match |-> ParseOr(c.sql, c.args, kin.row, 1).v]
    /\ UNCHANGED <<mode, codec, writeVars, compileVars, pageVars, kin>>

NextKeyset ==
    AddOrder \/ BuildKeyset

SpecKeyset ==
    InitKeyset /\ [][NextKeyset]_vars

----------------------------------------------------------------------------
(* Pagination behaviours: a caller configures a Query over an unchanging   *)
(* table, calls Page, and follows NextCursor with After or steps back with *)
(* Before.                                                                 *)

PageTable ==
    Table("items", <<"id">>, <<"id", "a", "b">>, "", "")

PageDialect ==
    "postgres"

FilterSpecs ==
    { Gte("a", 2) }

(* the stored tables of the behaviours: ids 1..NRows, any values of column a, and a
   second column b that repeats across rows independently of a *)
Tables ==
    { {[id |-> i, a |-> f[i], b |-> ((i + f[i]) % 2) + 1] : i \in 1..NRows} :
      f \in [1..NRows -> 1..MaxVal] }

InitPage ==
    /\ IdleWrite
    /\ mode = "page"
    /\ IdleCodec
    /\ IdleCompile
    /\ IdleKeyset
    /\ rows \in Tables
    /\ q = NewQuery
    /\ page = NoPage
    /\ seen = <<>>
    /\ pc = "build"

(* Query.Where *)
Where ==
    /\ mode = "page" /\ pc = "build"
    /\ q.specs = <<>>
    /\ \E s \in FilterSpecs : q' = [q EXCEPT !.specs = Append(@, s)]
    /\ UNCHANGED <<mode, codec, writeVars, compileVars, keysetVars, rows, page, seen, pc>>

(* Query.OrderBy *)
OrderBy ==
    /\ mode = "page" /\ pc = "build"
    /\ Len(q.orderCols) < MaxOrders
    /\ \E c \in PageColumns, dir \in {"ASC", "DESC"} :
          q' = [q EXCEPT !.orderCols = Append(@, [column |-> c, dir |-> dir])]
    /\ UNCHANGED <<mode, codec, writeVars, compileVars, keysetVars, rows, page, seen, pc>>

(* Query.PageSize; the builder is then handed to the paging loop *)
PageSize ==
    /\ mode = "page" /\ pc = "build"
    /\ \E n \in 1..MaxPageSize : q' = [q EXCEPT !.pageSize = SomeInt(n)]
    /\ pc' = "ready"
    /\ UNCHANGED <<mode, codec, writeVars, compileVars, keysetVars, rows, page, seen>>

(* Query.Page *)
Page ==
    /\ mode = "page" /\ pc \in {"build", "ready"}
    /\ LET st == PageStatement(q, PageTable, PageDialect)
           base == [NoPage EXCEPT !.query = st.query, !.args = st.args,
                                  !.pageSize = st.pageSize, !.sized = q.pageSize.set,
                                  !.orders = st.orders,
                                  !.forward = q.forward, !.cursor = q.cursor]
       IN  /\ q' = [q EXCEPT !.pageSize = SomeInt(st.pageSize)]
           /\ IF st.err # ""
              THEN /\ page' = [NoPage EXCEPT !.status = "err", !.err = st.err]
                   /\ seen' = seen
              ELSE \/ /\ page' = [base EXCEPT !.status = "err", !.err = "query failed"]
                      /\ seen' = seen
                   \/ \E items \in RunSelect(st.query, st.args, rows) :
                         LET pg == PageOf(st, items)
                         IN  /\ page' = [base EXCEPT !.status = "ok", !.fetched = items,
                                                     !.Items = pg.Items,
                                                     !.HasMore = pg.HasMore,
                                                     !.NextCursor = pg.NextCursor]
                             /\ seen' = IF q.forward THEN seen \o pg.Items ELSE seen
    /\ pc' = "paged"
    /\ UNCHANGED <<mode, codec, writeVars, compileVars, keysetVars, rows>>

(* Query.After with the cursor of the page just returned *)
After ==
    /\ mode = "page" /\ pc = "paged"
    /\ page.status = "ok" /\ page.forward /\ page.HasMore
    /\ Len(seen) <= NRows
    /\ q' = [q EXCEPT !.cursor = page.NextCursor, !.forward = TRUE]
    /\ pc' = "ready"
    /\ UNCHANGED <<mode, codec, writeVars, compileVars, keysetVars, rows, page, seen>>

(* Query.Before with the cursor of a row of the page just returned *)
Before ==
    /\ mode = "page" /\ pc = "paged"
    /\ page.status = "ok" /\ page.forward
    /\ \E i \in 1..Len(page.Items) :
          q' = [q EXCEPT !.cursor = EncodeCursor(Extract(page.orders, page.Items[i])),
                         !.forward = FALSE]
    /\ pc' = "ready"
    /\ UNCHANGED <<mode, codec, writeVars, compileVars, keysetVars, rows, page, seen>>

NextPage ==
    Where \/ OrderBy \/ PageSize \/ Page \/ After \/ Before

SpecPage ==
    InitPage /\ [][NextPage]_vars

----------------------------------------------------------------------------
(* Concurrent writers: two callers of a simple mapping with a version      *)
(* column load the same row with Find and store it back with Save.         *)

MaxVersion ==
    3

MaxBalance ==
    2

Writers ==
    1..2

Faults ==
    {"none", "error", "rows"}

SaveTable ==
    Table("accounts", <<"id">>, <<"id", "balance", "version">>, "version", "")

NoRow ==
    [id |-> Null]

InitSave ==
    /\ mode = "save"
    /\ IdleCodec
    /\ IdleCompile
    /\ IdlePage
    /\ IdleKeyset
    /\ \E d \in Dialects :
          cfg = [driver |-> "simple", dialect |-> d, table |-> SaveTable, relations |-> <<>>]
    /\ db = [root |-> {[id |-> 1, balance |-> 0, version |-> 1]}, kids |-> <<>>]
    /\ wr = [w \in Writers |-> [pc |-> "idle", agg |-> NoRow, err |-> "", fault |-> "none"]]
    /\ last = NoLast

(* writer w reads the row with Repository.Find *)
Load(w) ==
    /\ mode = "save"
    /\ wr[w].pc # "loaded"
    /\ \E res \in Find(cfg.table, cfg.dialect, <<1>>, db.root) :
          /\ res.err = ""
          /\ res.items[1].version < MaxVersion
          /\ wr' = [wr EXCEPT ![w] = [pc |-> "loaded", agg |-> res.items[1], err |-> "",
                                      fault |-> "none"]]
    /\ UNCHANGED <<mode, codec, compileVars, pageVars, keysetVars, cfg, db, last>>

(* writer w changes the balance of what it read and calls Repository.Save *)
Save(w) ==
    /\ mode = "save"
    /\ wr[w].pc = "loaded"
    /\ \E b \in 1..MaxBalance, fk \in Faults :
          \E r \in {RepositorySave(cfg, db, Aggregate([wr[w].agg EXCEPT !.balance = b], <<>>),
                                    IF fk = "none" THEN NoFault ELSE [at |-> 1, kind |-> fk])} :
              /\ db' = r.store
              /\ wr' = [wr EXCEPT ![w] = [pc |-> "saved", agg |-> [@.agg EXCEPT !.balance = b],
                                          err |-> r.err, fault |-> fk]]
              /\ last' = [NoLast EXCEPT !.op = "Save", !.err = r.err, !.log = r.log,
                                        !.before = db]
    /\ UNCHANGED <<mode, codec, compileVars, pageVars, keysetVars, cfg>>

NextSave ==
    \E w \in Writers : Load(w) \/ Save(w)

SpecSave ==
    InitSave /\ [][NextSave]_vars

----------------------------------------------------------------------------
(* Single caller: Save and Delete of one aggregate through the Repository, *)
(* on every kind of mapping, with a database call that may fail.           *)

MaxTotal ==
    2

MaxChildren ==
    2

MaxStored ==
    2

OrdersTable(version, softDelete) ==
    Table("orders", <<"id">>, <<"id", "total", "version">>, version, softDelete)

Items(onSave) ==
    Relation("items", "order_id", "id", <<"id", "order_id", "v">>, onSave)

Tags(onSave) ==
    Relation("tags", "order_id", "id", <<"id", "order_id", "v">>, onSave)

RelationLists ==
    {<<>>, <<Items(DeleteAndReinsert)>>, <<Items(Upsert)>>,
     <<Items(Upsert), Tags(DeleteAndReinsert)>>}

WriteConfigs ==
    {[driver |-> "simple", dialect |-> d, table |-> OrdersTable(v, sd), relations |-> <<>>] :
        d \in Dialects, v \in {"", "version"}, sd \in {"", "deleted_at"}}
    \cup
    {[driver |-> "composite", dialect |-> d, table |-> OrdersTable(v, sd), relations |-> rl] :
        d \in Dialects, v \in {"", "version"}, sd \in {"", "deleted_at"},
        rl \in RelationLists}

(* the ways one database call of an operation that makes n calls when none fails can
   go wrong: the call returns an error, the context is cancelled before it, or the
   result of the first statement cannot report its affected rows *)
FaultPlans(n) ==
    {NoFault}
    \cup {[at |-> i, kind |-> k] : i \in 1..n, k \in {"error", "cancel"}}
    \cup {[at |-> i, kind |-> "rows"] : i \in 1..(IF n > 2 THEN 2 ELSE n)}

RelationTables(c) ==
    {c.relations[i].Table : i \in 1..Len(c.relations)}

ChildRow(id, parent, v) ==
    [id |-> id, order_id |-> parent, v |-> v]

(* the store before the first call: another aggregate, with one child in every child table *)
InitialStore(c) ==
    [root |-> {[col \in RootColumns(c.table) |->
                  CASE col = "id" -> 2 [] col = "deleted_at" -> Null [] OTHER -> 1]},
     kids |-> [tn \in RelationTables(c) |-> {ChildRow(21, 2, 1)}]]

InitWrite ==
    /\ mode = "write"
    /\ IdleCodec
    /\ IdleCompile
    /\ IdlePage
    /\ IdleKeyset
    /\ cfg \in WriteConfigs
    /\ db = InitialStore(cfg)
    /\ wr = <<>>
    /\ last = NoLast

(* Repository.Save of aggregate 1 *)
SaveAggregate ==
    /\ mode \in {"write", "tx", "keys"}
    /\ last.op = ""
    /\ \A r \in db.root : r.version <= MaxStored
    /\ \E total \in 1..MaxTotal, ver \in 1..MaxStored, n \in {0, MaxChildren} :
          LET agg == Aggregate([id |-> 1, total |-> total, version |-> ver],
                               [tn \in RelationTables(cfg) |->
                                  [j \in 1..n |-> ChildRow(10 + j, 1, total)]])
          IN  \E f \in FaultPlans(CallsOfSave(cfg, agg)) :
                 \E r \in {RepositorySave(cfg, db, agg, f)} :
                     /\ db' = r.store
                     /\ last' = [op |-> "Save", err |-> r.err, log |-> r.log, before |-> db,
                                 agg |-> agg, ids |-> <<>>, read |-> NoRead,
                                 spec |-> NilSpec]
    /\ UNCHANGED <<mode, codec, compileVars, pageVars, keysetVars, cfg, wr>>

(* Repository.Delete of aggregate 1, or a call with one identifier too many *)
DeleteAggregate ==
    /\ mode \in {"write", "tx", "keys"}
    /\ last.op = ""
    /\ \E ids \in {<<1>>, <<1, 1>>} :
          \E f \in FaultPlans(CallsOfDelete(cfg, ids)) :
             \E r \in {RepositoryDelete(cfg, db, ids, f)} :
                 /\ db' = r.store
                 /\ last' = [op |-> "Delete", err |-> r.err, log |-> r.log, before |-> db,
                             agg |-> NoLast.agg, ids |-> ids, read |-> NoRead,
                             spec |-> NilSpec]
    /\ UNCHANGED <<mode, codec, compileVars, pageVars, keysetVars, cfg, wr>>

(* the caller has looked at the result and goes on to its next call *)
Continue ==
    /\ mode \in {"write", "soft", "find", "tx", "read", "keys"}
    /\ last.op # ""
    /\ last' = NoLast
    /\ UNCHANGED <<mode, codec, compileVars, pageVars, keysetVars, cfg, db, wr>>

NextWrite ==
    SaveAggregate \/ DeleteAggregate \/ Continue

SpecWrite ==
    InitWrite /\ [][NextWrite]_vars

----------------------------------------------------------------------------
(* Soft delete: Save, Delete and every read of the Repository and of Query *)
(* on a table that declares a soft-delete column.                          *)

MaxSoftIds ==
    2

SoftConfigs ==
    {[driver |-> "simple", dialect |-> d, table |-> OrdersTable("", "deleted_at"),
      relations |-> <<>>] : d \in Dialects}
    \cup
    {[driver |-> "composite", dialect |-> d, table |-> OrdersTable("", "deleted_at"),
      relations |-> <<Items(DeleteAndReinsert)>>, keys |-> "int64"] : d \in Dialects}

(* the caller's filters *)
ReadSpecs ==
    {NilSpec, Eq("total", 1), Or(<<Eq("total", 1), Eq("total", 2)>>),
     IsNotNull("deleted_at"), Not(Eq("total", 2))}

(* the builders a caller hands to a terminal method of Query *)
ReadQueries ==
    {[NewQuery EXCEPT !.specs = sp, !.orderCols = oc] :
        sp \in {<<>>, <<Eq("total", 1)>>, <<Or(<<Eq("total", 1), Eq("total", 2)>>)>>,
                <<Lte("total", 2), IsNotNull("deleted_at")>>},
        oc \in {<<>>, <<[column |-> "total", dir |-> "DESC"]>>}}

InitSoft ==
    /\ mode = "soft"
    /\ IdleCodec
    /\ IdleCompile
    /\ IdlePage
    /\ IdleKeyset
    /\ cfg \in SoftConfigs
    /\ db = [root |-> {}, kids |-> [tn \in RelationTables(cfg) |-> {}]]
    /\ wr = <<>>
    /\ last = NoLast

SoftSave ==
    /\ mode = "soft"
    /\ last.op = ""
    /\ \E id \in 1..MaxSoftIds, total \in 1..MaxTotal :
          LET agg == Aggregate([id |-> id, total |-> total, version |-> 1],
                               [tn \in RelationTables(cfg) |->
                                  <<ChildRow(10 * id + 1, id, total)>>])
          IN  \E r \in {RepositorySave(cfg, db, agg, NoFault)} :
                 /\ db' = r.store
                 /\ last' = [NoLast EXCEPT !.op = "Save", !.err = r.err, !.log = r.log,
                                           !.before = db, !.agg = agg]
    /\ UNCHANGED <<mode, codec, compileVars, pageVars, keysetVars, cfg, wr>>

SoftDelete ==
    /\ mode = "soft"
    /\ last.op = ""
    /\ \E id \in 1..MaxSoftIds :
          \E r \in {RepositoryDelete(cfg, db, <<id>>, NoFault)} :
             /\ db' = r.store
             /\ last' = [NoLast EXCEPT !.op = "Delete", !.err = r.err, !.log = r.log,
                                       !.before = db, !.ids = <<id>>]
    /\ UNCHANGED <<mode, codec, compileVars, pageVars, keysetVars, cfg, wr>>

(* the caller keeps the result of a read *)
Returned(res, s) ==
    /\ last' = [NoLast EXCEPT !.op = res.op, !.err = res.err, !.before = db,
                              !.read = res, !.spec = s]
    /\ UNCHANGED <<mode, codec, compileVars, pageVars, keysetVars, cfg, db, wr>>

ReadFind ==
    /\ mode = "soft" /\ last.op = ""
    /\ \E id \in 1..MaxSoftIds :
          \E res \in Find(cfg.table, cfg.dialect, <<id>>, db.root) : Returned(res, Eq("id", id))

ReadFindBy ==
    /\ mode = "soft" /\ last.op = ""
    /\ \E s \in ReadSpecs :
          \E res \in FindBy(cfg.table, cfg.dialect, s, db.root) : Returned(res, s)

ReadExistsBy ==
    /\ mode = "soft" /\ last.op = ""
    /\ \E s \in ReadSpecs :
          \E res \in ExistsBy(cfg.table, cfg.dialect, s, db.root) : Returned(res, s)

ReadCountBy ==
    /\ mode = "soft" /\ last.op = ""
    /\ \E s \in ReadSpecs :
          \E res \in CountBy(cfg.table, cfg.dialect, s, db.root) : Returned(res, s)

ReadAll ==
    /\ mode = "soft" /\ last.op = ""
    /\ \E qq \in ReadQueries, lim \in {NoInt, SomeInt(1)}, off \in {NoInt, SomeInt(1)} :
          \E res \in QueryAll([qq EXCEPT !.limit = lim, !.offset = off],
                              cfg.table, cfg.dialect, db.root) :
             Returned(res, combinedSpec(qq))

ReadFirst ==
    /\ mode = "soft" /\ last.op = ""
    /\ \E qq \in ReadQueries :
          \E res \in QueryFirst(qq, cfg.table, cfg.dialect, db.root) :
             Returned(res, combinedSpec(qq))

ReadCount ==
    /\ mode = "soft" /\ last.op = ""
    /\ \E qq \in ReadQueries :
          \E res \in QueryCount(qq, cfg.table, cfg.dialect, db.root) :
             Returned(res, combinedSpec(qq))

ReadExists ==
    /\ mode = "soft" /\ last.op = ""
    /\ \E qq \in ReadQueries :
          \E res \in QueryExists(qq, cfg.table, cfg.dialect, db.root) :
             Returned(res, combinedSpec(qq))

ReadPage ==
    /\ mode = "soft" /\ last.op = ""
    /\ \E qq \in ReadQueries, fwd \in BOOLEAN,
          cur \in {EmptyToken, EncodeCursor([c \in {"id", "total"} |-> 1])} :
          \E res \in QueryPage([qq EXCEPT !.pageSize = SomeInt(1), !.cursor = cur,
                                          !.forward = fwd],
                               cfg.table, cfg.dialect, db.root) :
             Returned(res, combinedSpec(qq))

NextSoft ==
    \/ SoftSave \/ SoftDelete \/ Continue
    \/ ReadFind \/ ReadFindBy \/ ReadExistsBy \/ ReadCountBy
    \/ ReadAll \/ ReadFirst \/ ReadCount \/ ReadExists \/ ReadPage

SpecSoft ==
    InitSoft /\ [][NextSoft]_vars

----------------------------------------------------------------------------
(* A caller that owns a transaction: SaveTx and DeleteTx on the caller's   *)
(* transaction next to Save and Delete on the database handle.  The caller *)
(* commits its transaction when the call returns nil and rolls it back     *)
(* when the call returns an error.                                         *)

TxConfigs ==
    {c \in WriteConfigs : c.driver = "composite"}

InitTx ==
    /\ mode = "tx"
    /\ IdleCodec
    /\ IdleCompile
    /\ IdlePage
    /\ IdleKeyset
    /\ cfg \in TxConfigs
    /\ db = InitialStore(cfg)
    /\ wr = <<>>
    /\ last = NoLast

(* Repository.SaveTx of aggregate 1 *)
SaveTx ==
    /\ mode = "tx"
    /\ last.op = ""
    /\ \A r \in db.root : r.version <= MaxStored
    /\ \E total \in 1..MaxTotal, ver \in 1..MaxStored, n \in {0, MaxChildren} :
          LET agg == Aggregate([id |-> 1, total |-> total, version |-> ver],
                               [tn \in RelationTables(cfg) |->
                                  [j \in 1..n |-> ChildRow(10 + j, 1, total)]])
          IN  \E f \in FaultPlans(CallsOfSaveTx(cfg, agg)) :
                 \E r \in {RepositorySaveTx(cfg, db, agg, f)} :
                     /\ db' = IF r.err = "" THEN r.store ELSE db
                     /\ last' = [NoLast EXCEPT !.op = "SaveTx", !.err = r.err, !.log = r.log,
                                               !.before = db, !.agg = agg]
    /\ UNCHANGED <<mode, codec, compileVars, pageVars, keysetVars, cfg, wr>>

(* Repository.DeleteTx of aggregate 1, or a call with one identifier too many *)
DeleteTx ==
    /\ mode = "tx"
    /\ last.op = ""
    /\ \E ids \in {<<1>>, <<1, 1>>} :
          \E f \in FaultPlans(CallsOfDeleteTx(cfg, ids)) :
             \E r \in {RepositoryDeleteTx(cfg, db, ids, f)} :
                 /\ db' = IF r.err = "" THEN r.store ELSE db
                 /\ last' = [NoLast EXCEPT !.op = "DeleteTx", !.err = r.err, !.log = r.log,
                                           !.before = db, !.ids = ids]
    /\ UNCHANGED <<mode, codec, compileVars, pageVars, keysetVars, cfg, wr>>

NextTx ==
    SaveTx \/ DeleteTx \/ SaveAggregate \/ DeleteAggregate \/ Continue

SpecTx ==
    InitTx /\ [][NextTx]_vars

----------------------------------------------------------------------------
(* Table configurations: Save and Delete of the composite driver on tables *)
(* whose key column stands first or second in Columns, and on a table with *)
(* a composite key whose first column the children refer to.               *)

KeyTables ==
    { Table("orders", <<"id">>, <<"id", "total", "version">>, "", ""),
      Table("orders", <<"id">>, <<"total", "id", "version">>, "", ""),
      Table("orders", <<"id", "total">>, <<"id", "total", "version">>, "", "") }

KeyConfigs ==
    {[driver |-> "composite", dialect |-> d, table |-> t, relations |-> rl] :
        d \in Dialects, t \in KeyTables,
        rl \in {<<Items(DeleteAndReinsert)>>, <<Items(Upsert), Tags(DeleteAndReinsert)>>}}

InitKeys ==
    /\ mode = "keys"
    /\ IdleCodec
    /\ IdleCompile
    /\ IdlePage
    /\ IdleKeyset
    /\ cfg \in KeyConfigs
    /\ db = InitialStore(cfg)
    /\ wr = <<>>
    /\ last = NoLast

NextKeys ==
    SaveAggregate \/ DeleteAggregate \/ Continue

SpecKeys ==
    InitKeys /\ [][NextKeys]_vars

----------------------------------------------------------------------------
(* Reading many aggregates: FindBy on mappings of the composite driver,   *)
(* over a store of parents and children, with a query that may fail.       *)

MaxParents ==
    2

(* a relation that does not list its foreign key among its columns *)
Notes ==
    Relation("notes", "order_id", "id", <<"id", "v">>, DeleteAndReinsert)

FindConfigs ==
    {[driver |-> "composite", dialect |-> d, table |-> OrdersTable("", ""), relations |-> rl,
      keys |-> k] :
        d \in Dialects, k \in KeyKinds,
        rl \in {<<>>, <<Items(DeleteAndReinsert)>>, <<Items(Upsert), Tags(DeleteAndReinsert)>>,
                <<Items(DeleteAndReinsert), Notes>>}}

(* the stored children of the parents K: one each, and a second one for parent 1 *)
StoredChildren(K) ==
    {ChildRow(10 * p + 1, p, 1) : p \in K} \cup (IF 1 \in K THEN {ChildRow(12, 1, 2)} ELSE {})

FindSpecs ==
    {NilSpec, Eq("total", 1), Eq("id", 0), In("id", <<1, 2>>)}

(* one of the n queries fails or is cancelled, or none *)
FindFaults(n) ==
    {NoFault} \cup {[at |-> i, kind |-> k] : i \in 1..n, k \in {"error", "cancel"}}

InitFind ==
    /\ mode = "find"
    /\ IdleCodec
    /\ IdleCompile
    /\ IdlePage
    /\ IdleKeyset
    /\ cfg \in FindConfigs
    /\ \E Ps \in SUBSET (1..MaxParents), K \in SUBSET (1..MaxParents) :
          db = [root |-> {[id |-> p, total |-> p, version |-> 1] : p \in Ps},
                kids |-> [tn \in RelationTables(cfg) |-> StoredChildren(K)]]
    /\ wr = <<>>
    /\ last = NoLast

(* Repository.FindBy *)
FindMany ==
    /\ mode = "find"
    /\ last.op = ""
    /\ \E s \in FindSpecs, f \in FindFaults(Len(cfg.relations) + 1) :
          \E r \in FindByComposite(cfg, s, db, f) :
             last' = [NoLast EXCEPT !.op = "FindBy", !.err = r.err, !.log = r.log,
                                    !.before = db, !.spec = s,
                                    !.read = [NoRead EXCEPT !.op = "FindBy", !.items = r.items,
                                                            !.n = r.parents]]
    /\ UNCHANGED <<mode, codec, compileVars, pageVars, keysetVars, cfg, db, wr>>

NextFind ==
    FindMany \/ Continue

SpecFind ==
    InitFind /\ [][NextFind]_vars

----------------------------------------------------------------------------
(* Reads that may fail: Find, Query.First and FindBy of a Repository over  *)
(* either driver, on a store of parents and children, with queries that    *)
(* may fail or be cancelled.                                               *)

ReadConfigs ==
    {[driver |-> "simple", dialect |-> d, table |-> OrdersTable("", sd), relations |-> <<>>] :
        d \in Dialects, sd \in {"", "deleted_at"}}
    \cup FindConfigs

(* the builders handed to First *)
FirstQueries ==
    {[NewQuery EXCEPT !.specs = sp, !.orderCols = oc, !.offset = off] :
        sp \in {<<>>, <<Eq("total", 1)>>, <<Eq("id", 0)>>},
        oc \in {<<>>, <<[column |-> "id", dir |-> "DESC"]>>},
        off \in {NoInt, SomeInt(1)}}

(* the stored parents Ps; on a table with a soft-delete column parent 2 is deleted *)
StoredParents(c, Ps) ==
    {[col \in RootColumns(c.table) |->
        CASE col = "deleted_at" -> (IF p = 2 THEN 1 ELSE Null)
          [] col = "version" -> 1
          [] OTHER -> p] : p \in Ps}

InitRead ==
    /\ mode = "read"
    /\ IdleCodec
    /\ IdleCompile
    /\ IdlePage
    /\ IdleKeyset
    /\ cfg \in ReadConfigs
    /\ \E Ps \in SUBSET (1..MaxParents), K \in SUBSET (1..MaxParents) :
          db = [root |-> StoredParents(cfg, Ps),
                kids |-> [tn \in RelationTables(cfg) |-> StoredChildren(K)]]
    /\ wr = <<>>
    /\ last = NoLast

(* the caller keeps what a read returned and the calls it made *)
ReturnedFrom(op, r, ids, s) ==
    /\ last' = [NoLast EXCEPT !.op = op, !.err = r.err, !.log = r.log, !.before = db,
                              !.ids = ids, !.spec = s,
                              !.read = [NoRead EXCEPT !.op = op, !.items = r.items,
                                                      !.n = r.parents]]
    /\ UNCHANGED <<mode, codec, compileVars, pageVars, keysetVars, cfg, db, wr>>

(* Repository.Find of a stored or a missing key, or with one identifier too many *)
FindOne ==
    /\ mode = "read" /\ last.op = ""
    /\ \E ids \in {<<1>>, <<2>>, <<1, 1>>}, f \in FindFaults(Len(cfg.relations) + 1) :
          \E r \in RepositoryFind(cfg, ids, db, f) : ReturnedFrom("Find", r, ids, NilSpec)

(* Query.First *)
FindFirst ==
    /\ mode = "read" /\ last.op = ""
    /\ \E qq \in FirstQueries, f \in FindFaults(Len(cfg.relations) + 1) :
          \E r \in First(cfg, qq, db, f) : ReturnedFrom("First", r, <<>>, combinedSpec(qq))

(* Repository.FindBy *)
FindAllBy ==
    /\ mode = "read" /\ last.op = ""
    /\ \E s \in FindSpecs, f \in FindFaults(Len(cfg.relations) + 1) :
          \E r \in RepositoryFindBy(cfg, s, db, f) : ReturnedFrom("FindBy", r, <<>>, s)

NextRead ==
    FindOne \/ FindFirst \/ FindAllBy \/ Continue

SpecRead ==
    InitRead /\ [][NextRead]_vars

----------------------------------------------------------------------------
(* Shared specifications: a caller keeps a slice of values, passes its     *)
(* first two elements to In, NotIn or Raw, and builds two queries from the *)
(* resulting Spec, each with its own limit and offset, one after the other *)
(* or concurrently.  A Go slice is a backing array, a length and a         *)
(* capacity; the heap is the sequence of the backing arrays.  Two          *)
(* unsynchronised writes to one element are a data race: every order of    *)
(* the two writes is a behaviour.                                          *)

MaxSpare ==
    2

Builders ==
    1..2

GoSlice(arr, len, cap) ==
    [arr |-> arr, len |-> len, cap |-> cap]

NilSlice ==
    GoSlice(0, 0, 0)

(* the elements of a slice *)
Elements(heap, sl) ==
    IF sl.arr = 0 THEN <<>> ELSE SubSeq(heap[sl.arr], 1, sl.len)

(* the caller's values: In("a", vals[:2]...) over vals of 2 + spare elements *)
CallerArray(spare) ==
    [i \in 1..(2 + spare) |-> 10 + i]

(* the ways a Spec holds the caller's slice: alone, under Not, as the only child of And,
   as the second child of And, and alone on a table with a soft-delete column *)
SpecForms ==
    {"In", "Raw", "Not(In)", "And(In)", "And(Eq, In)", "In, soft delete"}

(* Go's append(sl, v): in place when the capacity allows, else into a new array with
   grow spare elements *)
GoAppend(heap, sl, v, grow) ==
    IF sl.arr # 0 /\ sl.len < sl.cap
    THEN [heap |-> [heap EXCEPT ![sl.arr][sl.len + 1] = v],
          slice |-> GoSlice(sl.arr, sl.len + 1, sl.cap)]
    ELSE [heap |-> Append(heap, Elements(heap, sl) \o <<v>> \o [i \in 1..grow |-> 0]),
          slice |-> GoSlice(Len(heap) + 1, sl.len + 1, sl.len + 1 + grow)]

(* the argument slice Spec.ToSQL returns: inSpec and rawSpec return the slice they were
   constructed with, notSpec and joinSpecs with one child return their child's, and
   joinSpecs with more children appends the children's arguments to a nil slice *)
ToSQLArgs(form, heap, held, grow) ==
    CASE form \in {"In", "Raw", "Not(In)", "And(In)"} -> [heap |-> heap, slice |-> held]
      [] form = "And(Eq, In)" ->
            [heap |-> Append(heap, <<9>> \o Elements(heap, held) \o [i \in 1..grow |-> 0]),
             slice |-> GoSlice(Len(heap) + 1, held.len + 1, held.len + 1 + grow)]
      [] OTHER ->
            [heap |-> Append(heap, Elements(heap, held) \o [i \in 1..grow |-> 0]),
             slice |-> GoSlice(Len(heap) + 1, held.len, held.len + grow)]

(* the limit and the offset of builder i *)
LimitOf(i) ==
    50 + i

OffsetOf(i) ==
    70 + i

NoBuilder ==
    [pc |-> "start", args |-> NilSlice, sent |-> <<>>]

InitShare ==
    /\ mode = "share"
    /\ IdleCodec
    /\ IdleCompile
    /\ IdlePage
    /\ IdleKeyset
    /\ \E form \in SpecForms, spare \in 0..MaxSpare, offsets \in BOOLEAN :
          /\ cfg = [driver |-> "", form |-> form, spare |-> spare, offsets |-> offsets,
                    held |-> GoSlice(1, 2, 2 + spare)]
          /\ db = <<CallerArray(spare)>>
    /\ wr = [i \in Builders |-> NoBuilder]
    /\ last = NoLast

Step(i, pcNext, r) ==
    /\ db' = r.heap
    /\ wr' = [wr EXCEPT ![i].pc = pcNext, ![i].args = r.slice]
    /\ UNCHANGED <<mode, codec, compileVars, pageVars, keysetVars, cfg, last>>

(* Query.buildSQL: condition, specArgs, np := spec.ToSQL(d, 1); args = specArgs *)
CompileShared ==
    /\ mode = "share"
    /\ \E i \in Builders, grow \in 0..1 :
          /\ wr[i].pc = "start"
          /\ Step(i, "limit", ToSQLArgs(cfg.form, db, cfg.held, grow))

(* Query.buildSQL: args = append(args, *q.limit) *)
AppendLimit ==
    /\ mode = "share"
    /\ \E i \in Builders, grow \in 0..1 :
          /\ wr[i].pc = "limit"
          /\ Step(i, IF cfg.offsets THEN "offset" ELSE "send",
                  GoAppend(db, wr[i].args, LimitOf(i), grow))

(* Query.buildSQL: args = append(args, *q.offset) *)
AppendOffset ==
    /\ mode = "share"
    /\ \E i \in Builders, grow \in 0..1 :
          /\ wr[i].pc = "offset"
          /\ Step(i, "send", GoAppend(db, wr[i].args, OffsetOf(i), grow))

(* Query.All: findMany hands the elements of args to the database *)
SendShared ==
    /\ mode = "share"
    /\ \E i \in Builders :
          /\ wr[i].pc = "send"
          /\ wr' = [wr EXCEPT ![i].pc = "done", ![i].sent = Elements(db, wr[i].args)]
          /\ UNCHANGED <<mode, codec, compileVars, pageVars, keysetVars, cfg, db, last>>

NextShare ==
    CompileShared \/ AppendLimit \/ AppendOffset \/ SendShared

SpecShare ==
    InitShare /\ [][NextShare]_vars

----------------------------------------------------------------------------
(* Page sizes: a caller sets any page size, zero and negative ones         *)
(* included, and asks for the first page of a table of up to MaxSized rows *)
(* under each dialect.                                                     *)

MaxNegative ==
    2

MaxSized ==
    2

(* the rows the database returns for the statement of Page.  LIMIT with a negative
   count is an error under Postgres and MySQL and means no limit under SQLite. *)
RunPageSelect(d, st, R) ==
    IF PageFetchSize(st.pageSize) >= 0 THEN RunSelect(st.query, st.args, R)
    ELSE IF d = "sqlite" THEN SortedSeqs(Matching(st.query, st.args, R), OrderOf(st.query))
    ELSE {}

InitSize ==
    /\ mode = "size"
    /\ IdleCodec
    /\ IdleCompile
    /\ IdleKeyset
    /\ \E d \in Dialects : cfg = [driver |-> "", dialect |-> d]
    /\ db = [root |-> {}, kids |-> <<>>]
    /\ wr = <<>>
    /\ last = NoLast
    /\ \E n \in 0..MaxSized : rows = {[id |-> i, a |-> 1, b |-> i] : i \in 1..n}
    /\ \E oc \in {<<>>, <<[column |-> "b", dir |-> "DESC"]>>} :
          q = [NewQuery EXCEPT !.orderCols = oc]
    /\ page = NoPage
    /\ seen = <<>>
    /\ pc = "build"

(* Query.PageSize with any int64 *)
AnyPageSize ==
    /\ mode = "size" /\ pc = "build"
    /\ \E n \in (0 - MaxNegative)..MaxPageSize : q' = [q EXCEPT !.pageSize = SomeInt(n)]
    /\ pc' = "ready"
    /\ UNCHANGED <<mode, codec, writeVars, compileVars, keysetVars, rows, page, seen>>

(* what Page makes of the items findMany returned *)
PageReturned(st, pg) ==
    [NoPage EXCEPT !.status = IF pg.panic THEN "panic" ELSE "ok",
                   !.query = st.query, !.args = st.args, !.pageSize = st.pageSize,
                   !.orders = st.orders,
                   !.Items = IF pg.panic THEN <<>> ELSE pg.Items,
                   !.HasMore = pg.HasMore,
                   !.NextCursor = IF pg.panic THEN EmptyToken ELSE pg.NextCursor]

(* Query.Page of a builder with any page size *)
PageOfAnySize ==
    /\ mode = "size" /\ pc \in {"build", "ready"}
    /\ \E st \in {PageStatement(q, PageTable, cfg.dialect)} :
          /\ q' = [q EXCEPT !.pageSize = SomeInt(st.pageSize)]
          /\ \/ page' = [NoPage EXCEPT !.status = "err", !.err = "query failed",
                                        !.pageSize = st.pageSize]
             \/ \E items \in RunPageSelect(cfg.dialect, st, rows) :
                   page' = [PageReturned(st, PageOf(st, items)) EXCEPT !.fetched = items]
    /\ pc' = "paged"
    /\ UNCHANGED <<mode, codec, writeVars, compileVars, keysetVars, rows, seen>>

NextSize ==
    AnyPageSize \/ PageOfAnySize

SpecSize ==
    InitSize /\ [][NextSize]_vars

----------------------------------------------------------------------------
(* Statements of the Query builder: a caller configures a builder over a   *)
(* table under Postgres and calls All, First or Page; only the statement    *)
(* and its arguments are kept.                                              *)

MaxFilters ==
    2

RawAscending ==
    RawTokens(<<W("x"), W("="), Ph("$", 1), W("AND"), W("y"), W("="), Ph("$", 2)>>, <<17, 18>>)

RawDescending ==
    RawTokens(<<W("y"), W("="), Ph("$", 2), W("AND"), W("x"), W("="), Ph("$", 1)>>, <<17, 18>>)

StmtFilters ==
    { Eq("a", 11), In("b", <<12, 13>>), IsNull("b"),
      Or(<<Eq("a", 14), Between("b", 15, 16)>>), RawAscending, RawDescending }

StmtTables ==
    { Table("items", <<"id">>, <<"id", "a", "b">>, "", sd) : sd \in {"", "deleted_at"} }
    \cup { Table("items", <<"id", "b">>, <<"id", "a", "b">>, "", "") }

StmtOrders ==
    { <<>>, <<[column |-> "a", dir |-> "DESC"]>>,
      <<[column |-> "b", dir |-> "DESC"], [column |-> "a", dir |-> "ASC"]>> }

StmtBuilders ==
    { [specs |-> sp, orderCols |-> oc, limit |-> lim, offset |-> off, pageSize |-> ps,
       cursor |-> cur, forward |-> fwd] :
      sp \in UNION {[1..k -> StmtFilters] : k \in 0..MaxFilters},
      oc \in StmtOrders,
      lim \in {NoInt, SomeInt(5)}, off \in {NoInt, SomeInt(7)},
      ps \in {NoInt, SomeInt(3)},
      cur \in {EmptyToken, EncodeCursor([c \in {"id", "a"} |-> 1])},
      fwd \in BOOLEAN }

NoStmt ==
    [done |-> FALSE, op |-> "", table |-> NilSpec, query |-> <<>>, args |-> <<>>,
     orders |-> <<>>]

InitStmt ==
    /\ mode = "stmt"
    /\ IdleWrite
    /\ IdleCodec
    /\ IdleKeyset
    /\ tree = NilSpec
    /\ other = NilSpec
    /\ \E t \in StmtTables : out = [NoStmt EXCEPT !.table = t]
    /\ rows = {}
    /\ q \in StmtBuilders
    /\ page = NoPage
    /\ seen = <<>>
    /\ pc = "idle"

Built(op, st, orders) ==
    /\ out' = [out EXCEPT !.done = TRUE, !.op = op, !.query = st.query, !.args = st.args,
                          !.orders = orders]
    /\ UNCHANGED <<mode, codec, writeVars, keysetVars, tree, other, rows, page, seen, pc>>

(* Query.All up to the call of findMany *)
BuildAll ==
    /\ mode = "stmt" /\ ~out.done
    /\ Built("All", buildSQL(q, out.table, "postgres"), q.orderCols)
    /\ q' = q

(* Query.First up to the call of findMany: the builder keeps the limit 1 *)
BuildFirst ==
    /\ mode = "stmt" /\ ~out.done
    /\ Built("First", buildSQL([q EXCEPT !.limit = SomeInt(1)], out.table, "postgres"),
             q.orderCols)
    /\ q' = [q EXCEPT !.limit = SomeInt(1)]

(* Query.Page up to the call of findMany: the builder keeps the page size *)
BuildPage ==
    /\ mode = "stmt" /\ ~out.done
    /\ \E st \in {PageStatement(q, out.table, "postgres")} :
          /\ Built("Page", st, st.orders)
          /\ q' = [q EXCEPT !.pageSize = SomeInt(st.pageSize)]

NextStmt ==
    BuildAll \/ BuildFirst \/ BuildPage

SpecStmt ==
    InitStmt /\ [][NextStmt]_vars

----------------------------------------------------------------------------
(* The cursor codec: a caller encodes a cursor or is handed a token by a    *)
(* client, decodes the token, and pages with it.                           *)

MaxKeys ==
    2

CursorColumns ==
    {"id", "name", "at", "n"}

GoValues ==
    {GoValue("string", "abc"), GoValue("string", ""), GoValue("int64", 1),
     GoValue("float64", 1), GoValue("float64", 2), GoValue("bool", TRUE), GoValue("nil", 0)}

(* the cursors of the behaviours: up to MaxKeys columns, any values *)
Cursors ==
    UNION { [K -> GoValues] : K \in {X \in SUBSET CursorColumns : Cardinality(X) <= MaxKeys} }

(* tokens that no EncodeCursor produced: text that is not URL-safe base64, base64 of
   bytes that are not a JSON text, and the empty string *)
ForgedTokens ==
    {[b64 |-> FALSE, json |-> FALSE, v |-> EmptyMap, text |-> "!!!invalid!!!"],
     [b64 |-> TRUE, json |-> FALSE, v |-> EmptyMap, text |-> "e2JhZCBqc29u"],
     EmptyToken}

InitCodec ==
    /\ mode = "codec"
    /\ IdleWrite
    /\ IdleCompile
    /\ IdlePage
    /\ IdleKeyset
    /\ \E c \in Cursors : codec = [NoCodec EXCEPT !.stage = "cursor", !.cursor = c]

(* EncodeCursor *)
Encode ==
    /\ mode = "codec"
    /\ codec.stage = "cursor"
    /\ codec' = [codec EXCEPT !.stage = "encoded", !.token = EncodeCursorTyped(codec.cursor)]
    /\ UNCHANGED <<mode, writeVars, compileVars, pageVars, keysetVars>>

(* a client sends a token of its own making *)
Forge ==
    /\ mode = "codec"
    /\ codec.stage = "cursor"
    /\ \E tok \in ForgedTokens : codec' = [codec EXCEPT !.stage = "forged", !.token = tok]
    /\ UNCHANGED <<mode, writeVars, compileVars, pageVars, keysetVars>>

(* DecodeCursor *)
Decode ==
    /\ mode = "codec"
    /\ codec.stage \in {"encoded", "forged"}
    /\ \E r \in {DecodeCursorTyped(codec.token)} :
          codec' = [codec EXCEPT !.stage = IF codec.stage = "encoded" THEN "decoded"
                                           ELSE "rejected",
                                 !.err = r.err, !.Values = r.Values]
    /\ UNCHANGED <<mode, writeVars, compileVars, pageVars, keysetVars>>

(* Query.After or Query.Before with the token, then Query.Page: the queries it executes *)
PageWith ==
    /\ mode = "codec"
    /\ codec.stage \in {"encoded", "forged"}
    /\ \E fwd \in BOOLEAN, oc \in {<<>>, <<[column |-> "a", dir |-> "DESC"]>>} :
          \E st \in {PageStatement([NewQuery EXCEPT !.cursor = codec.token, !.forward = fwd,
                                                    !.orderCols = oc],
                                   PageTable, PageDialect)} :
             codec' = [codec EXCEPT !.stage = IF codec.stage = "encoded" THEN "paged"
                                              ELSE "paged forged",
                                    !.err = st.err,
                                    !.queries = IF st.err # "" THEN <<>> ELSE <<st.query>>]
    /\ UNCHANGED <<mode, writeVars, compileVars, pageVars, keysetVars>>

NextCodec ==
    Encode \/ Forge \/ Decode \/ PageWith

SpecCodec ==
    InitCodec /\ [][NextCodec]_vars

----------------------------------------------------------------------------
(* Raw fragments: a caller writes a fragment that mentions $1..$k in some  *)
(* textual order and compiles it under a dialect at an offset.             *)

MaxRawArgs ==
    11

MaxRawOffset ==
    3

(* the permutations of 1..n, as sequences *)
RECURSIVE Perms(_)
Perms(S) ==
    IF S = {} THEN {<<>>}
    ELSE UNION { {<<x>> \o p : p \in Perms(S \ {x})} : x \in S }

(* the textual orders of the tokens, each token written once: every order of up to
   three tokens, and MaxRawArgs tokens ascending, descending, and with the two-digit
   tokens ahead of the tokens that are their prefixes *)
RawOrders ==
    UNION {Perms(1..k) : k \in 0..3}
    \cup {[j \in 1..MaxRawArgs |-> j], [j \in 1..MaxRawArgs |-> MaxRawArgs + 1 - j],
          [j \in 1..MaxRawArgs |-> ((j + 8) % MaxRawArgs) + 1]}

RawArgCount(order) ==
    IF Len(order) = 0 THEN 0
    ELSE CHOOSE m \in SeqSet(order) : \A x \in SeqSet(order) : x <= m

(* the fragment "c=$t1 c=$t2 ..." for the textual order t of the tokens *)
RawFragment(order) ==
    Raw(Concat([j \in 1..Len(order) |-> <<"c", "=">> \o RawOld(order[j]) \o <<" ">>]),
        [i \in 1..RawArgCount(order) |-> 100 + i])

InitRaw ==
    /\ mode = "raw"
    /\ IdleWrite
    /\ IdleCodec
    /\ IdlePage
    /\ IdleKeyset
    /\ \E order \in RawOrders : tree = RawFragment(order)
    /\ other = NilSpec
    /\ \E d \in Dialects, o \in 1..MaxRawOffset :
          out = [done |-> FALSE, dialect |-> d, offset |-> o,
                 sql |-> <<>>, args |-> <<>>, next |-> 0]

(* rawSpec.ToSQL *)
CompileRaw ==
    /\ mode = "raw" /\ ~out.done
    /\ \E r \in {RawToSQL(tree, out.dialect, out.offset)} :
          out' = [out EXCEPT !.done = TRUE, !.sql = r.sql, !.args = r.args, !.next = r.next]
    /\ UNCHANGED <<mode, codec, writeVars, tree, other, pageVars, keysetVars>>

NextRaw ==
    CompileRaw

SpecRaw ==
    InitRaw /\ [][NextRaw]_vars

----------------------------------------------------------------------------
(* Single compilations: a caller compiles one In/NotIn, or one And/Or over *)
(* up to MaxJoin children, under any dialect at an offset.                 *)

MaxIn ==
    3

MaxJoin ==
    3

InColumns ==
    {"a", "status"}

InValues(n) ==
    [i \in 1..n |-> 30 + i]

InSpecs ==
    {In(c, InValues(n)) : c \in InColumns, n \in 0..MaxIn}
    \cup {NotIn(c, InValues(n)) : c \in InColumns, n \in 0..MaxIn}

JoinChildren ==
    { Eq("a", 11), Between("b", 12, 13), IsNull("c"), NotIn("b", <<14, 15>>),
      And(<<Eq("c", 16), Like("d", 17)>>), Or(<<>>) }

JoinSpecs ==
    UNION { {And(cs), Or(cs)} : cs \in UNION {[1..k -> JoinChildren] : k \in 0..MaxJoin} }

InitShape ==
    /\ mode = "shape"
    /\ IdleWrite
    /\ IdleCodec
    /\ IdlePage
    /\ IdleKeyset
    /\ tree \in InSpecs \cup JoinSpecs
    /\ other = NilSpec
    /\ \E d \in Dialects, o \in 1..MaxOffset :
          out = [done |-> FALSE, dialect |-> d, offset |-> o,
                 sql |-> <<>>, args |-> <<>>, next |-> 0]

(* Spec.ToSQL(d, offset) *)
CompileShape ==
    /\ mode = "shape" /\ ~out.done
    /\ \E r \in {ToSQL(tree, out.dialect, out.offset)} :
          out' = [out EXCEPT !.done = TRUE, !.sql = r.sql, !.args = r.args, !.next = r.next]
    /\ UNCHANGED <<mode, codec, writeVars, tree, other, pageVars, keysetVars>>

NextShape ==
    CompileShape

SpecShape ==
    InitShape /\ [][NextShape]_vars

----------------------------------------------------------------------------
(* Upsert statements: Table.upsertSQL for a table under a dialect.  The   *)
(* tables have a single or a composite primary key, with or without a     *)
(* column outside the key, a version column and the two timestamp columns.*)

UpsertKeys ==
    {<<"account_id">>, <<"account_id", "role_id">>}

UpsertTables ==
    { [Table("account_roles", pk, pk \o extra \o ver, IF ver = <<>> THEN "" ELSE ver[1], "")
          EXCEPT !.CreatedAt = ca, !.UpdatedAt = ua] :
      pk \in UpsertKeys, extra \in {<<>>, <<"name">>}, ver \in {<<>>, <<"version">>},
      ca \in {"", "assigned_at"}, ua \in {"", "updated_at"} }

NoStatement ==
    [verb |-> "", table |-> "", insertCols |-> <<>>, valuePh |-> <<>>, conflict |-> "",
     target |-> <<>>, setClauses |-> <<>>, guard |-> ""]

InitUpsert ==
    /\ mode = "upsert"
    /\ IdleWrite
    /\ IdleCodec
    /\ IdlePage
    /\ IdleKeyset
    /\ tree \in UpsertTables
    /\ other = NilSpec
    /\ \E d \in Dialects : out = [done |-> FALSE, dialect |-> d, stmt |-> NoStatement]

(* Table.upsertSQL(d) *)
BuildUpsert ==
    /\ mode = "upsert" /\ ~out.done
    /\ out' = [out EXCEPT !.done = TRUE, !.stmt = upsertSQL(tree, out.dialect)]
    /\ UNCHANGED <<mode, codec, writeVars, tree, other, pageVars, keysetVars>>

NextUpsert ==
    BuildUpsert

SpecUpsert ==
    InitUpsert /\ [][NextUpsert]_vars

----------------------------------------------------------------------------
(* Compiler behaviours: a caller builds a Spec tree with the constructors  *)
(* and compiles it under Postgres at some offset.                          *)

Leaves ==
    { Eq("a", 11), Gt("b", 12), In("a", <<>>), NotIn("b", <<13, 14>>),
      Like("a", 15), ILike("b", 16), Between("a", 17, 18), IsNull("b") }

SiblingLeaves ==
    { Eq("c", 21), Between("c", 22, 23), IsNotNull("c") }

RECURSIVE Size(_)
RECURSIVE SizeAll(_)
SizeAll(specs) ==
    IF Len(specs) = 0 THEN 0 ELSE Size(Head(specs)) + SizeAll(Tail(specs))

Size(s) ==
    1 + SizeAll(s.specs)

InitCompile ==
    /\ IdleWrite
    /\ mode = "compile"
    /\ IdleCodec
    /\ tree \in Leaves
    /\ other \in SiblingLeaves
    /\ out = NoOut
    /\ IdlePage
    /\ IdleKeyset

Combine(children) ==
    /\ SizeAll(children) + 1 <= MaxNodes
    /\ \E c \in {And(children), Or(children)} : tree' = c
    /\ UNCHANGED <<mode, codec, writeVars, other, out, pageVars, keysetVars>>

MkJoin ==
    /\ mode = "compile" /\ ~out.done
    /\ \/ Combine(<<>>)
       \/ Combine(<<tree>>)
       \/ Combine(<<tree, other>>)
       \/ Combine(<<other, tree>>)
       \/ Combine(<<tree, tree>>)
       \/ Combine(<<other, tree, other>>)

MkNot ==
    /\ mode = "compile" /\ ~out.done
    /\ Size(tree) + 1 <= MaxNodes
    /\ tree' = Not(tree)
    /\ UNCHANGED <<mode, codec, writeVars, other, out, pageVars, keysetVars>>

Compile ==
    /\ mode = "compile" /\ ~out.done
    /\ \E o \in 1..MaxOffset :
          LET r == ToSQL(tree, "postgres", o)
          IN  out' = [done |-> TRUE, tree |-> tree, offset |-> o,
                      sql |-> r.sql, args |-> r.args, next |-> r.next]
    /\ UNCHANGED <<mode, codec, writeVars, tree, other, pageVars, keysetVars>>

NextCompile ==
    MkJoin \/ MkNot \/ Compile

SpecCompile ==
    InitCompile /\ [][NextCompile]_vars

----------------------------------------------------------------------------
(* C1 helpers *)

RECURSIVE PlaceholderNumbers(_)
PlaceholderNumbers(sql) ==
    IF Len(sql) = 0 THEN <<>>
    ELSE (IF IsPh(Head(sql)) THEN <<Head(sql).n>> ELSE <<>>) \o PlaceholderNumbers(Tail(sql))

RECURSIVE LeafValues(_)
RECURSIVE LeafValuesAll(_)
LeafValuesAll(specs) ==
    IF Len(specs) = 0 THEN <<>> ELSE LeafValues(Head(specs)) \o LeafValuesAll(Tail(specs))

LeafValues(s) ==
    s.vals \o LeafValuesAll(s.specs)

Range(lo, n) ==
    [i \in 1..n |-> lo + i - 1]

RECURSIVE Depth(_)
RECURSIVE DepthAll(_)
DepthAll(specs) ==
    IF Len(specs) = 0 THEN 0
    ELSE LET h == Depth(Head(specs))
             t == DepthAll(Tail(specs))
         IN  IF h > t THEN h ELSE t

Depth(s) ==
    1 + DepthAll(s.specs)

(* C1: under Postgres, a compiled tree returns nextOffset = offset + len(args), its
   placeholders read left to right are $offset .. $(nextOffset-1) without gap or
   repetition, and the i-th placeholder binds the i-th value of the tree in textual order. *)
C1_ContiguousPlaceholders ==
    out.done =>
        /\ out.next = out.offset + Len(out.args)
        /\ PlaceholderNumbers(out.sql) = Range(out.offset, Len(out.args))
        /\ out.args = LeafValues(out.tree)

C1_Witness ==
    /\ out.done
    /\ out.offset > 1
    /\ Depth(out.tree) >= 3
    /\ Len(out.args) >= 3
    /\ \E i \in 1..Len(out.tree.specs) : i >= 2 /\ Len(out.tree.specs[i].vals) > 0

----------------------------------------------------------------------------
(* Reference semantics used by the pagination properties                   *)

(* the truth value of a Spec on a row, read off the tree *)
RECURSIVE SpecHolds(_, _)
RECURSIVE AllHold(_, _)
RECURSIVE AnyHolds(_, _)
AllHold(specs, r) ==
    IF Len(specs) = 0 THEN "T" ELSE TriAnd(SpecHolds(Head(specs), r), AllHold(Tail(specs), r))

AnyHolds(specs, r) ==
    IF Len(specs) = 0 THEN "F" ELSE TriOr(SpecHolds(Head(specs), r), AnyHolds(Tail(specs), r))

SpecHolds(s, r) ==
    CASE s.kind = "nil" -> "T"
      [] s.kind = "cmp" -> CmpVal(s.op, r[s.column], s.vals[1])
      [] s.kind = "like" -> CmpVal("=", r[s.column], s.vals[1])
      [] s.kind = "between" ->
            TriAnd(CmpVal(">=", r[s.column], s.vals[1]), CmpVal("<=", r[s.column], s.vals[2]))
      [] s.kind = "null" -> Tri((r[s.column] = Null) # s.flag)
      [] s.kind = "in" ->
            LET hit == AnyHolds([i \in 1..Len(s.vals) |-> Eq(s.column, s.vals[i])], r)
            IN  IF s.flag THEN TriNot(hit) ELSE hit
      [] s.kind = "and" -> AllHold(s.specs, r)
      [] s.kind = "or" -> AnyHolds(s.specs, r)
      [] s.kind = "not" -> TriNot(SpecHolds(s.specs[1], r))

(* the rows the query's own filters select *)
Filtered ==
    {r \in rows : AllHold(q.specs, r) = "T"}

(* the sort order of the walk: the caller's clauses, ties broken by the key *)
WalkOrder ==
    Append(q.orderCols, [column |-> "id", dir |-> "ASC"])

PageOk ==
    mode = "page" /\ pc = "paged" /\ page.status = "ok"

(* C4: a forward walk over an unchanging table returns every row matching the filter
   exactly once, in ORDER BY order; every page that announces a successor is non-empty,
   so the walk ends after at most one page per row plus one. *)
C4_WalkComplete ==
    (PageOk /\ page.forward) =>
        /\ Len(seen) <= Cardinality(Filtered)
        /\ page.HasMore => Len(page.Items) >= 1
        /\ ~page.HasMore => seen \in SortedSeqs(Filtered, WalkOrder)

C4_Witness ==
    /\ PageOk /\ page.forward /\ ~page.HasMore
    /\ page.cursor # EmptyToken
    /\ page.pageSize = 1
    /\ Len(seen) = 3
    /\ Len(q.orderCols) = 2
    /\ q.orderCols[1].dir = "DESC" /\ q.orderCols[2].dir = "ASC"
    /\ \E i, j \in 1..3 : i # j /\ seen[i].a = seen[j].a

LastN(seq, n) ==
    IF n >= Len(seq) THEN seq ELSE SubSeq(seq, Len(seq) - n + 1, Len(seq))

(* the filtered rows that sort strictly before the cursor position, in sort order *)
PrecedingCursor ==
    CHOOSE s \in SortedSeqs({r \in Filtered : SortsBefore(r, page.cursor.v, WalkOrder)},
                            WalkOrder) : TRUE

(* C5: Page after Before(c) returns the up to pageSize rows that immediately precede
   the cursor position in the sort order. *)
C5_BeforeReturnsPreviousPage ==
    (PageOk /\ ~page.forward) =>
        page.Items = LastN(PrecedingCursor, page.pageSize)

(* C7: Page asks for pageSize+1 rows (pageSize 20 unless PageSize was called); with
   pageSize+1 rows back it keeps the first pageSize, HasMore is true and NextCursor encodes
   the extractor's values of the last kept row; otherwise it returns all rows, HasMore is
   false and NextCursor is empty. *)
C7_LookAheadRow ==
    PageOk =>
        LET n == page.pageSize
            il == IndexOf(page.query, "LIMIT")
        IN  /\ n = (IF page.sized THEN q.pageSize.n ELSE 20)
            /\ il > 0 /\ PhArg(page.query, page.args, il + 1) = n + 1
            /\ Len(page.fetched) <= n + 1
            /\ Len(page.fetched) = n + 1 =>
                  /\ page.Items = SubSeq(page.fetched, 1, n)
                  /\ page.HasMore
                  /\ page.NextCursor = EncodeCursor(Extract(page.orders, page.fetched[n]))
            /\ Len(page.fetched) <= n =>
                  /\ page.Items = page.fetched
                  /\ ~page.HasMore
                  /\ page.NextCursor = EmptyToken

C7_Witness ==
    /\ PageOk
    /\ page.sized
    /\ page.pageSize = 2
    /\ Len(page.fetched) = 3
    /\ page.HasMore

C7_WitnessDefault ==
    /\ PageOk
    /\ ~page.sized
    /\ Len(page.fetched) = NRows

(* C6: for 1 to 3 order clauses over distinct columns and non-null values, the keyset
   predicate is true of a row iff the row sorts strictly after the cursor tuple (forward)
   or strictly before it (backward) under ORDER BY orders. *)
C6_KeysetIsStrictTupleOrder ==
    kout.done =>
        ((kout.match = "T") <=>
            (IF kin.forward THEN SortsBefore(kin.values, kin.row, kin.orders)
                            ELSE SortsBefore(kin.row, kin.values, kin.orders)))

C6_Witness ==
    /\ kout.done
    /\ Len(kin.orders) = 3
    /\ ~kin.forward
    /\ kin.orders[1].dir = "DESC" /\ kin.orders[3].dir = "ASC"
    /\ kin.row[kin.orders[1].column] = kin.values[kin.orders[1].column]
    /\ kin.row[kin.orders[2].column] = kin.values[kin.orders[2].column]
    /\ kout.match = "T"

C6_WitnessEqualTuple ==
    /\ kout.done
    /\ Len(kin.orders) = 3
    /\ kin.row = kin.values
    /\ kout.match = "F"

----------------------------------------------------------------------------
(* Claims about optimistic locking                                         *)

StoredRow ==
    CHOOSE r \in db.root : r.id = 1

(* both writers read the row at the same version and the upsert of each was executed *)
BothSavedSameVersion ==
    /\ mode = "save"
    /\ \A w \in Writers : wr[w].pc = "saved" /\ wr[w].fault = "none"
    /\ wr[1].agg.version = wr[2].agg.version

(* C2: on a table with a version column, under each of the three dialects, when two
   writers have read the same row at version v and each calls Save with version v,
   exactly one Save succeeds and the stored version becomes v+1, the other returns
   ErrConcurrentModification, and the values of the losing writer are not stored. *)
C2_ExactlyOneWriterWins ==
    BothSavedSameVersion =>
        \E win, lose \in Writers :
            /\ win # lose
            /\ wr[win].err = ""
            /\ wr[lose].err = "ErrConcurrentModification"
            /\ StoredRow.version = wr[win].agg.version + 1
            /\ StoredRow.balance = wr[win].agg.balance

----------------------------------------------------------------------------
(* Claims about the last Repository call of a single caller                *)

LogVerbs(log) ==
    [i \in 1..Len(log) |-> log[i].verb]

(* the positions of the statements of the log (not BEGIN, COMMIT, ROLLBACK) *)
StatementPositions(log) ==
    {i \in 1..Len(log) : log[i].verb \notin {"BEGIN", "COMMIT", "ROLLBACK"}}

CountVerb(log, verb) ==
    Cardinality({i \in 1..Len(log) : log[i].verb = verb})

(* the last call began a transaction *)
Began ==
    Len(last.log) > 0 /\ last.log[1].verb = "BEGIN" /\ last.log[1].ok

(* a statement failed, or the version check after the root upsert did *)
SaveStatementFailed ==
    \/ \E i \in StatementPositions(last.log) : ~last.log[i].ok
    \/ last.err \in {"ErrConcurrentModification", "rows affected failed"}

CompositeSaveInTx ==
    /\ mode = "write"
    /\ last.op = "Save"
    /\ cfg.driver = "composite"
    /\ Len(cfg.relations) >= 1

RowsOf(S, id) ==
    [root |-> {r \in S.root : r.id = id},
     kids |-> [tn \in DOMAIN S.kids |-> {r \in S.kids[tn] : r.order_id = id}]]

(* C3: Repository.Save of a composite aggregate with at least one relation is all or
   nothing: when the root upsert, the version check or a child statement fails (context
   cancellation included) the transaction is rolled back, never committed, and the
   persisted parent and child rows are those before the Save; when every statement
   succeeds the transaction is committed exactly once. *)
C3_CompositeSaveAllOrNothing ==
    (CompositeSaveInTx /\ Began) =>
        /\ \A i \in StatementPositions(last.log) : last.log[i].on = "tx"
        /\ IF SaveStatementFailed
           THEN /\ CountVerb(last.log, "COMMIT") = 0
                /\ CountVerb(last.log, "ROLLBACK") = 1
                /\ last.log[Len(last.log)].verb = "ROLLBACK"
                /\ last.err # ""
                /\ db = last.before
           ELSE /\ CountVerb(last.log, "COMMIT") = 1
                /\ CountVerb(last.log, "ROLLBACK") = 0
                /\ last.log[Len(last.log)].verb = "COMMIT"
                /\ IF last.log[Len(last.log)].ok
                   THEN /\ last.err = ""
                        /\ \E r \in db.root : r.id = 1 /\ r.total = last.agg.root.total
                        /\ \A i \in 1..Len(cfg.relations) :
                              LET rel == cfg.relations[i]
                                  saved == SeqSet(last.agg.children[rel.Table])
                                  stored == RowsOf(db, 1).kids[rel.Table]
                              IN  IF rel.OnSave = DeleteAndReinsert THEN stored = saved
                                  ELSE saved \subseteq stored
                        /\ RowsOf(db, 2) = RowsOf(last.before, 2)
                   ELSE last.err # "" /\ db = last.before

(* a child statement failed after the root upsert and an earlier child statement had
   changed rows inside the transaction *)
C3_Witness ==
    /\ CompositeSaveInTx
    /\ Began
    /\ Len(last.log) = 7
    /\ \A i \in 2..5 : last.log[i].ok
    /\ last.log[2].affected >= 1 /\ last.log[3].affected >= 1
    /\ ~last.log[6].ok
    /\ last.log[7].verb = "ROLLBACK"
    /\ last.err = "insert children tags: context canceled"
    /\ db = last.before

(* the position of the root upsert in the log of a Save *)
RootUpsertPosition ==
    CHOOSE i \in StatementPositions(last.log) : \A j \in StatementPositions(last.log) : i <= j

(* the last call was a Save whose root upsert was executed and could report its count *)
SaveWithRootResult ==
    /\ mode = "write"
    /\ last.op = "Save"
    /\ StatementPositions(last.log) # {}
    /\ last.log[RootUpsertPosition].ok
    /\ last.err # "rows affected failed"

(* a call after the root upsert (a child statement or the commit) failed *)
LaterCallFailed ==
    \E i \in (RootUpsertPosition + 1)..Len(last.log) :
        last.log[i].verb # "ROLLBACK" /\ ~last.log[i].ok

(* C8 as stated: for the simple and the composite driver, on a table with a version
   column a Save whose root upsert reports zero affected rows returns
   ErrConcurrentModification and one that reports one or more returns nil; without a
   version column Save returns nil whatever the count. *)
C8_SaveReturnsNilOnAffectedRows ==
    SaveWithRootResult =>
        IF cfg.table.VersionColumn # ""
        THEN IF last.log[RootUpsertPosition].affected = 0
             THEN last.err = "ErrConcurrentModification"
             ELSE last.err = ""
        ELSE last.err = ""

(* C8 amended: zero affected rows on a table with a version column make Save return
   ErrConcurrentModification before any child statement; otherwise (one or more rows,
   or no version column) the version check passes, and Save returns nil exactly when
   no later call fails, which is always so for the simple driver and for a composite
   driver without relations. *)
C8_VersionCheckDecidesRootResult ==
    SaveWithRootResult =>
        IF cfg.table.VersionColumn # "" /\ last.log[RootUpsertPosition].affected = 0
        THEN /\ last.err = "ErrConcurrentModification"
             /\ \A i \in StatementPositions(last.log) : i = RootUpsertPosition
        ELSE /\ last.err # "ErrConcurrentModification"
             /\ (last.err = "") = ~LaterCallFailed
             /\ (cfg.driver = "simple" \/ Len(cfg.relations) = 0) => last.err = ""

(* a composite Save with relations whose root upsert met a newer stored version: zero
   rows, ErrConcurrentModification, no child statement, the transaction rolled back *)
C8_Witness ==
    /\ SaveWithRootResult
    /\ cfg.driver = "composite"
    /\ Len(cfg.relations) >= 1
    /\ cfg.table.VersionColumn # ""
    /\ last.log[RootUpsertPosition].affected = 0
    /\ last.err = "ErrConcurrentModification"
    /\ LogVerbs(last.log) = <<"BEGIN", "INSERT", "ROLLBACK">>

(* without a version column a root upsert that changed nothing is still a success *)
C8_WitnessNoVersion ==
    /\ SaveWithRootResult
    /\ cfg.table.VersionColumn = ""
    /\ last.log[RootUpsertPosition].affected = 0
    /\ last.err = ""

(* one or more affected rows, yet Save returns the error of a child statement *)
C8_WitnessChildFailure ==
    /\ SaveWithRootResult
    /\ cfg.table.VersionColumn # ""
    /\ last.log[RootUpsertPosition].affected >= 1
    /\ last.err = "delete children items: exec failed"

DeleteCall ==
    /\ mode = "write"
    /\ last.op = "Delete"
    /\ Len(last.ids) = Len(cfg.table.PrimaryKey)
    /\ cfg.driver = "composite"

(* the statements of a composite Delete with children, in the order the claim gives *)
ExpectedDeletes ==
    LET k == Len(cfg.relations)
    IN  [i \in 1..(k + 1) |-> IF i <= k THEN cfg.relations[k + 1 - i].Table ELSE cfg.table.Name]

(* C10: Delete on a composite mapping with k >= 1 relations and no soft-delete column
   issues the k child deletes in the order rk, ..., r1 and then the parent delete,
   inside one transaction; when a child delete fails no later statement is issued and
   the transaction is rolled back.  With a soft-delete column, or with k = 0, exactly
   one statement is issued and no transaction is begun. *)
C10_CompositeDeleteOrder ==
    DeleteCall =>
        IF Len(cfg.relations) >= 1 /\ cfg.table.SoftDelete = ""
        THEN /\ last.log[1].verb = "BEGIN"
             /\ CountVerb(last.log, "BEGIN") = 1
             /\ IF ~Began THEN Len(last.log) = 1 /\ db = last.before
                ELSE LET m == Cardinality(StatementPositions(last.log))
                         failed == \E i \in StatementPositions(last.log) : ~last.log[i].ok
                     IN  /\ StatementPositions(last.log) = 2..(m + 1)
                         /\ m <= Len(ExpectedDeletes)
                         /\ \A i \in 1..m :
                               /\ last.log[i + 1].verb = "DELETE"
                               /\ last.log[i + 1].table = ExpectedDeletes[i]
                               /\ last.log[i + 1].args = last.ids
                               /\ last.log[i + 1].on = "tx"
                               /\ i < m => last.log[i + 1].ok
                         /\ Len(last.log) = m + 2
                         /\ IF failed
                            THEN /\ last.log[m + 2].verb = "ROLLBACK"
                                 /\ last.err # ""
                                 /\ db = last.before
                            ELSE /\ m = Len(ExpectedDeletes)
                                 /\ last.log[m + 2].verb = "COMMIT"
                                 /\ IF last.log[m + 2].ok
                                    THEN /\ last.err = ""
                                         /\ RowsOf(db, 1).root = {}
                                         /\ \A tn \in DOMAIN db.kids : RowsOf(db, 1).kids[tn] = {}
                                         /\ RowsOf(db, 2) = RowsOf(last.before, 2)
                                    ELSE last.err # "" /\ db = last.before
        ELSE /\ Len(last.log) = 1
             /\ last.log[1].verb = (IF cfg.table.SoftDelete # "" THEN "UPDATE" ELSE "DELETE")
             /\ last.log[1].table = cfg.table.Name
             /\ last.log[1].on = "db"

(* two relations: the children are deleted from tags, then from items, then the order
   itself, and the transaction is committed *)
C10_Witness ==
    /\ DeleteCall
    /\ Len(cfg.relations) = 2
    /\ LogVerbs(last.log) = <<"BEGIN", "DELETE", "DELETE", "DELETE", "COMMIT">>
    /\ \A i \in 1..5 : last.log[i].ok
    /\ \A i \in 2..4 : last.log[i].affected >= 1
    /\ last.log[2].table = "tags"
    /\ last.err = ""

----------------------------------------------------------------------------
(* Claims about soft delete                                                *)

SoftColumn ==
    cfg.table.SoftDelete

(* the rows that were not soft-deleted when the read was made and satisfy its filter *)
LiveMatching ==
    {r \in last.before.root : r[SoftColumn] = Null /\ SpecHolds(last.spec, r) = "T"}

(* the WHERE clause of the query is `col IS NULL` alone, or starts with it AND-ed *)
SoftDeleteGuarded(query) ==
    LET iw == IndexOf(query, "WHERE")
        k == Cardinality({i \in (iw + 1)..Len(query) :
                            \A j \in (iw + 1)..i : query[j] = W("(")})
        g == iw + k + 1
    IN  /\ iw > 0
        /\ Tok(query, g) = SoftColumn /\ Tok(query, g + 1) = "IS" /\ Tok(query, g + 2) = "NULL"
        /\ IF k = 0 THEN Tok(query, g + 3) \notin {"AND", "OR"}
           ELSE Tok(query, g + 3) = ")" /\ Tok(query, g + 4) = "AND"

Ids(R) ==
    {r.id : r \in R}

(* C9: on a table with a soft-delete column, after any sequence of Save and Delete
   calls, Delete never removes a row: it issues one UPDATE that sets the column, guarded
   by `col IS NULL`, and never a DELETE; and Find, FindBy, ExistsBy, CountBy and Query's
   All, First, Count, Exists and Page have `col IS NULL` AND-ed into their WHERE clause,
   so that none of them returns or counts a row whose soft-delete column is set. *)
C9_SoftDeleteHidesRows ==
    (mode = "soft" /\ last.op # "") =>
        CASE last.op = "Delete" ->
               LET sql == last.log[1].sql
                   n == Len(sql)
               IN  /\ Len(last.log) = 1
                   /\ last.log[1].verb = "UPDATE"
                   /\ SubSeq(sql, 1, 5)
                        = <<W("UPDATE"), W(cfg.table.Name), W("SET"), W(SoftColumn), W("=")>>
                   /\ SubSeq(sql, n - 3, n)
                        = <<W("AND"), W(SoftColumn), W("IS"), W("NULL")>>
                   /\ Ids(db.root) = Ids(last.before.root)
                   /\ db.kids = last.before.kids
                   /\ \A r \in db.root : r.id = last.ids[1] => r[SoftColumn] # Null
                   /\ \A r \in last.before.root : r.id # last.ids[1] => r \in db.root
          [] last.op = "Save" ->
               /\ \A i \in 1..Len(last.log) :
                     ~(last.log[i].verb = "DELETE" /\ last.log[i].table = cfg.table.Name)
               /\ Ids(last.before.root) \subseteq Ids(db.root)
               /\ \A r \in db.root :
                     r[SoftColumn] # Null <=>
                        \E b \in last.before.root : b.id = r.id /\ b[SoftColumn] # Null
          [] OTHER ->
               /\ SoftDeleteGuarded(last.read.query)
               /\ SeqSet(last.read.items) \subseteq LiveMatching
               /\ last.op \in {"FindBy"} => SeqSet(last.read.items) = LiveMatching
               /\ last.op \in {"Find", "First"} =>
                     (last.err = "ErrNotFound") = (LiveMatching = {})
               /\ last.op \in {"CountBy", "Count"} => last.read.n = Cardinality(LiveMatching)
               /\ last.op \in {"ExistsBy", "Exists"} =>
                     (last.read.n = 1) = (LiveMatching # {})

(* a count over a table holding a live and a soft-deleted row that both pass the filter *)
C9_Witness ==
    /\ mode = "soft"
    /\ last.op = "CountBy"
    /\ last.read.n = 1
    /\ \E r \in db.root : r[SoftColumn] # Null /\ SpecHolds(last.spec, r) = "T"
    /\ \E i \in 1..Len(last.read.query) : last.read.query[i] = W("OR")

----------------------------------------------------------------------------
(* Claims about findMany of the composite driver                           *)

FindCall ==
    mode = "find" /\ last.op = "FindBy"

(* the parent query was executed and returned at least one row, and there are relations *)
ParentsFound ==
    /\ FindCall
    /\ last.log[1].ok
    /\ last.read.n >= 1
    /\ Len(cfg.relations) >= 1

(* the number of placeholders of a statement *)
PlaceholderCount(sql) ==
    Cardinality({i \in 1..Len(sql) : IsPh(sql[i])})

(* the keys of the parents a successful FindBy returned, in order *)
ReturnedKeys ==
    [i \in 1..Len(last.read.items) |-> last.read.items[i].root.id]

(* call i of the log is the batched query of relation i - 1 over P keys *)
BatchedChildQuery(i, P) ==
    /\ last.log[i].verb = "SELECT"
    /\ last.log[i].table = cfg.relations[i - 1].Table
    /\ Len(last.log[i].args) = P
    /\ PlaceholderCount(last.log[i].sql) = P
    /\ \A j \in 1..P : \E r \in last.before.root : r.id = last.log[i].args[j]
    /\ \A j1, j2 \in 1..P : j1 # j2 => last.log[i].args[j1] # last.log[i].args[j2]
    /\ last.log[i].args = last.log[2].args

(* C11 as stated: findMany on a composite mapping with k relations issues exactly 1 + k
   queries whenever the parent query returns at least one row, each child query
   carrying the P parent keys; exactly 1 query when no row is returned or k = 0. *)
C11_ExactlyOnePlusKQueries ==
    FindCall =>
        IF ParentsFound
        THEN /\ Len(last.log) = 1 + Len(cfg.relations)
             /\ \A i \in 2..Len(last.log) : BatchedChildQuery(i, last.read.n)
        ELSE Len(last.log) = 1

(* C11 amended: findMany issues the parent query first; when it returns P >= 1 rows and
   there are k >= 1 relations it then issues one batched query per relation, in
   declaration order, each carrying exactly the P collected parent keys, and stops at
   the first query that fails or the first relation that does not list its foreign key
   among its columns: exactly 1 + k queries when findMany succeeds, never more, and
   never one per parent.  It issues exactly 1 query when the parent query fails,
   returns no row, or k = 0. *)
C11_BatchedChildQueries ==
    FindCall =>
        /\ Len(last.log) >= 1
        /\ last.log[1].verb = "SELECT"
        /\ last.log[1].table = cfg.table.Name
        /\ \A i \in 1..(Len(last.log) - 1) : last.log[i].ok
        /\ IF ParentsFound
           THEN /\ Len(last.log) <= 1 + Len(cfg.relations)
                /\ \A i \in 2..Len(last.log) : BatchedChildQuery(i, last.read.n)
                /\ last.err = "" =>
                      /\ Len(last.log) = 1 + Len(cfg.relations)
                      /\ last.log[Len(last.log)].ok
                      /\ Len(last.read.items) = last.read.n
                      /\ last.log[2].args = ReturnedKeys
                /\ Len(last.log) < 1 + Len(cfg.relations) =>
                      /\ last.err # ""
                      /\ \/ ~last.log[Len(last.log)].ok
                         \/ fkColumnIndex(cfg.relations[Len(last.log)]) = 0
           ELSE Len(last.log) = 1

(* two parents and two relations: three queries, each child query with both keys *)
C11_Witness ==
    /\ FindCall
    /\ Len(cfg.relations) = 2
    /\ last.read.n = 2
    /\ last.err = ""
    /\ Len(last.log) = 3
    /\ Len(last.log[3].args) = 2
    /\ \E i \in 1..2 : Len(last.read.items[i].children["items"]) = 2

(* the second of two child queries is cancelled: two queries were issued *)
C11_WitnessStopped ==
    /\ ParentsFound
    /\ Len(cfg.relations) = 2
    /\ Len(last.log) = 3
    /\ ~last.log[3].ok
    /\ last.err = "context canceled"

----------------------------------------------------------------------------
(* Claims about the caller's transaction                                   *)

TxVerbs ==
    {"BEGIN", "COMMIT", "ROLLBACK"}

(* the last call was SaveTx or DeleteTx and reached the driver *)
OnCallersTx ==
    /\ mode = "tx"
    /\ last.op \in {"SaveTx", "DeleteTx"}
    /\ last.op = "DeleteTx" => Len(last.ids) = Len(cfg.table.PrimaryKey)

(* the last call was a Save, or a Delete that passed the check of its identifiers, on a
   mapping with relations (and, for Delete, without a soft-delete column) *)
OnDatabaseHandle ==
    /\ mode = "tx"
    /\ Len(cfg.relations) >= 1
    /\ \/ last.op = "Save"
       \/ /\ last.op = "Delete"
          /\ cfg.table.SoftDelete = ""
          /\ Len(last.ids) = Len(cfg.table.PrimaryKey)

(* C12: SaveTx and DeleteTx on a composite mapping execute every statement on the
   caller's transaction and never begin, commit or roll back a transaction, whether
   they succeed or fail; Save and Delete on a mapping with relations (and no
   soft-delete column, for Delete) begin exactly one transaction per call. *)
C12_CallersTransactionReused ==
    /\ OnCallersTx =>
          /\ Len(last.log) >= 1
          /\ \A i \in 1..Len(last.log) :
                /\ last.log[i].verb \notin TxVerbs
                /\ last.log[i].on = "tx"
    /\ OnDatabaseHandle =>
          /\ last.log[1].verb = "BEGIN"
          /\ last.log[1].on = "db"
          /\ CountVerb(last.log, "BEGIN") = 1
          /\ \A i \in 2..Len(last.log) : last.log[i].on = "tx"

(* SaveTx with two relations fails at a child statement after the root upsert and a
   child statement were executed: the driver rolled nothing back *)
C12_Witness ==
    /\ OnCallersTx
    /\ last.op = "SaveTx"
    /\ Len(cfg.relations) = 2
    /\ Len(last.log) >= 3
    /\ last.log[1].ok
    /\ ~last.log[Len(last.log)].ok
    /\ last.log[2].ok
    /\ last.log[2].table = "items"
    /\ last.err # ""

(* DeleteTx with relations and no soft delete: the child deletes and the parent delete
   on the caller's transaction *)
C12_WitnessDeleteTx ==
    /\ OnCallersTx
    /\ last.op = "DeleteTx"
    /\ Len(cfg.relations) = 2
    /\ cfg.table.SoftDelete = ""
    /\ LogVerbs(last.log) = <<"DELETE", "DELETE", "DELETE">>
    /\ last.err = ""

(* Save through the database handle in the same behaviours begins one transaction *)
C12_WitnessSave ==
    /\ OnDatabaseHandle
    /\ last.op = "Save"
    /\ last.err = ""
    /\ last.log[Len(last.log)].verb = "COMMIT"

----------------------------------------------------------------------------
(* Claims about the DeleteAndReinsert strategy                             *)

(* the last call was a Save of the composite driver that returned nil *)
CompositeSaveSucceeded ==
    /\ mode = "write"
    /\ last.op = "Save"
    /\ cfg.driver = "composite"
    /\ last.err = ""

(* the positions of the log where a statement with the given verb names the table *)
PositionsOn(log, verb, table) ==
    {i \in 1..Len(log) : log[i].verb = verb /\ log[i].table = table}

(* the rows of a relation's table that belong to the parent with the given key *)
ChildrenIn(S, rel, key) ==
    {r \in S.kids[rel.Table] : r[rel.ForeignKey] = key}

(* relation rel was saved by one delete by foreign key, followed by one insert of all
   the new rows when there are any *)
DeleteThenOneInsert(rel) ==
    LET dels == PositionsOn(last.log, "DELETE", rel.Table)
        inss == PositionsOn(last.log, "INSERT", rel.Table)
        new == last.agg.children[rel.Table]
    IN  /\ Cardinality(dels) = 1
        /\ \A p \in dels :
              /\ last.log[p].args = <<last.agg.root.id>>
              /\ last.log[p].sql = deleteByFK(rel, cfg.dialect)
              /\ IF Len(new) = 0 THEN inss = {}
                 ELSE /\ inss = {p + 1}
                      /\ last.log[p + 1].sql.rowCount = Len(new)
                      /\ Len(last.log[p + 1].args) = Len(new) * Len(rel.Columns)
                      /\ last.log[p + 1].affected = Len(new)

(* C13: after a successful composite Save, for every relation with the
   DeleteAndReinsert strategy the rows of the relation's table whose foreign key equals
   the parent's key are exactly the child rows decomposed from the saved aggregate; the
   delete is issued before the insert, all new rows go in one insert statement, and
   when the new set is empty only the delete is issued. *)
C13_DeleteAndReinsertReplacesChildren ==
    CompositeSaveSucceeded =>
        \A i \in 1..Len(cfg.relations) :
            cfg.relations[i].OnSave = DeleteAndReinsert =>
                /\ ChildrenIn(db, cfg.relations[i], last.agg.root.id)
                      = SeqSet(last.agg.children[cfg.relations[i].Table])
                /\ DeleteThenOneInsert(cfg.relations[i])
                /\ \A key \in {r.id : r \in db.root} \ {last.agg.root.id} :
                      ChildrenIn(db, cfg.relations[i], key)
                         = ChildrenIn(last.before, cfg.relations[i], key)

(* the parent had two children before; the Save stores two children with other values *)
C13_Witness ==
    /\ CompositeSaveSucceeded
    /\ cfg.relations = <<Items(DeleteAndReinsert)>>
    /\ Cardinality(ChildrenIn(last.before, cfg.relations[1], 1)) = 2
    /\ Len(last.agg.children["items"]) = 2
    /\ ChildrenIn(last.before, cfg.relations[1], 1) \cap ChildrenIn(db, cfg.relations[1], 1) = {}

(* the parent had two children before; the Save of an aggregate without children issues
   the delete alone and leaves the parent without children *)
C13_WitnessEmpty ==
    /\ CompositeSaveSucceeded
    /\ cfg.relations = <<Items(Upsert), Tags(DeleteAndReinsert)>>
    /\ Cardinality(ChildrenIn(last.before, cfg.relations[2], 1)) = 2
    /\ Len(last.agg.children["tags"]) = 0
    /\ ChildrenIn(db, cfg.relations[2], 1) = {}
    /\ PositionsOn(last.log, "INSERT", "tags") = {}

----------------------------------------------------------------------------
(* Claims about the cursor codec                                           *)

(* the token of the cursor was decoded *)
RoundTripped ==
    mode = "codec" /\ codec.stage = "decoded"

(* C14: DecodeCursor(EncodeCursor(c)) returns a cursor equal to c with no error, for
   every cursor c whose values are strings, numbers, booleans or null, including an
   empty value map. *)
C14_CursorRoundTrip ==
    RoundTripped => codec.err = "" /\ codec.Values = codec.cursor

(* the part of C14 that holds: no error, the same columns, and every value that is not
   an integer comes back as it was; an integer comes back as a float64 *)
C14_RoundTripUpToNumberType ==
    RoundTripped =>
        /\ codec.err = ""
        /\ DOMAIN codec.Values = DOMAIN codec.cursor
        /\ \A c \in DOMAIN codec.cursor :
              IF codec.cursor[c].t = "int64"
              THEN codec.Values[c] = GoValue("float64", codec.cursor[c].v)
              ELSE codec.Values[c] = codec.cursor[c]

(* a cursor holding an integer key was encoded and decoded *)
C14_WitnessInteger ==
    /\ RoundTripped
    /\ "id" \in DOMAIN codec.cursor
    /\ codec.cursor["id"] = GoValue("int64", 1)
    /\ codec.Values["id"] = GoValue("float64", 1)

(* the token is not URL-safe base64, or is base64 of bytes that are not JSON *)
InvalidToken(tok) ==
    ~tok.b64 \/ ~tok.json

(* C15 as stated: DecodeCursor returns ErrInvalidCursor for every token that is not
   valid URL-safe base64 and for every valid base64 token whose payload is not valid
   JSON; Page called with such a token returns that error without executing a query. *)
C15_InvalidTokenRejectedEverywhere ==
    /\ (mode = "codec" /\ codec.stage = "rejected" /\ InvalidToken(codec.token))
          => codec.err = "ErrInvalidCursor"
    /\ (mode = "codec" /\ codec.stage = "paged forged" /\ InvalidToken(codec.token))
          => codec.err = "ErrInvalidCursor" /\ codec.queries = <<>>

(* C15 amended: DecodeCursor returns ErrInvalidCursor for every token that is not valid
   URL-safe base64 and for every valid base64 token whose payload is not valid JSON
   (the empty string among them); Page called with such a token that is not the empty
   string returns that error without executing a query; with the empty string Page
   decodes nothing and executes the query of the first page. *)
C15_InvalidTokenRejected ==
    /\ (mode = "codec" /\ codec.stage = "rejected" /\ InvalidToken(codec.token))
          => codec.err = "ErrInvalidCursor"
    /\ (mode = "codec" /\ codec.stage = "paged forged" /\ InvalidToken(codec.token))
          => IF codec.token.text # ""
             THEN codec.err = "ErrInvalidCursor" /\ codec.queries = <<>>
             ELSE /\ codec.err = ""
                  /\ Len(codec.queries) = 1
                  /\ IndexOf(codec.queries[1], "WHERE") = 0
    /\ (mode = "codec" /\ codec.stage \in {"decoded", "paged"}) => codec.err = ""

(* Page was called with base64 of bytes that are not JSON *)
C15_Witness ==
    /\ mode = "codec"
    /\ codec.stage = "paged forged"
    /\ codec.token.b64 /\ ~codec.token.json /\ codec.token.text # ""
    /\ codec.err = "ErrInvalidCursor"
    /\ codec.queries = <<>>

(* DecodeCursor was called with text that is not base64 *)
C15_WitnessDecode ==
    /\ mode = "codec"
    /\ codec.stage = "rejected"
    /\ ~codec.token.b64
    /\ codec.err = "ErrInvalidCursor"

----------------------------------------------------------------------------
(* Claims about raw fragments                                              *)

IsDigit(ch) ==
    \E i \in 1..10 : DigitChars[i] = ch

(* the position after the digits that start at position i of the text *)
RECURSIVE DigitsEnd(_, _)
DigitsEnd(s, i) ==
    IF i <= Len(s) /\ IsDigit(s[i]) THEN DigitsEnd(s, i + 1) ELSE i

(* the number written by the digits s[i..j-1] *)
RECURSIVE NumberAt(_, _, _)
NumberAt(s, i, j) ==
    IF j <= i THEN 0
    ELSE 10 * NumberAt(s, i, j - 1) + ((CHOOSE d \in 1..10 : DigitChars[d] = s[j - 1]) - 1)

(* the positions where a placeholder starts: a $ followed by a digit, or a ? *)
TokenStarts(s) ==
    {i \in 1..Len(s) : \/ s[i] = "?"
                       \/ s[i] = "$" /\ DigitsEnd(s, i + 1) > i + 1}

(* the positions of the characters that belong to no placeholder *)
TextPositions(s) ==
    {i \in 1..Len(s) : ~\E p \in TokenStarts(s) :
                            p <= i /\ (i = p \/ (s[p] = "$" /\ i < DigitsEnd(s, p + 1)))}

(* the elements of a set of numbers, in increasing order *)
Ascending(S) ==
    [j \in 1..Cardinality(S) |-> CHOOSE x \in S : Cardinality({y \in S : y < x}) = j - 1]

(* one placeholder: $ with all the digits that follow it, or ? *)
PlaceholderAt(s, p) ==
    IF s[p] = "?" THEN [ph |-> "?", n |-> 0]
    ELSE [ph |-> "$", n |-> NumberAt(s, p + 1, DigitsEnd(s, p + 1))]

(* the placeholders of a text, in textual order *)
PlaceholdersIn(s, starts) ==
    [j \in 1..Len(starts) |-> PlaceholderAt(s, starts[j])]

PlaceholdersOf(s) ==
    PlaceholdersIn(s, Ascending(TokenStarts(s)))

(* the characters of a text outside its placeholders, in textual order *)
TextIn(s, positions) ==
    [j \in 1..Len(positions) |-> s[positions[j]]]

TextAround(s) ==
    TextIn(s, Ascending(TextPositions(s)))

RawCompiled ==
    mode = "raw" /\ out.done

(* the argument of the returned list that a placeholder of the compiled fragment is
   bound to: $n is the n-th argument of the statement, whose arguments offset .. offset
   + k - 1 are the fragment's; the j-th ? is the j-th argument *)
BoundArg(j) ==
    LET p == PlaceholdersOf(out.sql)[j]
    IN  IF p.ph = "$" THEN p.n - out.offset + 1 ELSE j

(* the text around the placeholders is the caller's *)
SameTextAround ==
    TextAround(out.sql) = TextAround(tree.sql)

(* C16: for Raw(sql, a1..ak) whose sql mentions each of $1..$k in any textual order,
   ToSQL at offset o rewrites all tokens as if simultaneously, so that every
   placeholder of the compiled fragment is bound to the argument its original $i token
   named: under Postgres $i becomes $(o+i-1), under MySQL and SQLite the j-th ? binds
   the argument named by the j-th token; the returned args are a1..ak and nextOffset is
   o + k. *)
C16_RawBindsNamedArguments ==
    RawCompiled =>
        /\ out.args = tree.args
        /\ out.next = out.offset + Len(tree.args)
        /\ SameTextAround
        /\ Len(PlaceholdersOf(out.sql)) = Len(PlaceholdersOf(tree.sql))
        /\ \A j \in 1..Len(PlaceholdersOf(out.sql)) :
              /\ PlaceholdersOf(out.sql)[j].ph = (IF out.dialect = "postgres" THEN "$" ELSE "?")
              /\ BoundArg(j) = PlaceholdersOf(tree.sql)[j].n

(* the part of C16 that holds: the rewrite is simultaneous (no token is rewritten
   through a token it is a prefix of), under Postgres every token is bound to the
   argument it named, and under MySQL and SQLite every token becomes a ?; the j-th ?
   is bound to the j-th argument whatever token it replaced *)
C16_RawRewriteIsSimultaneous ==
    RawCompiled =>
        /\ out.args = tree.args
        /\ out.next = out.offset + Len(tree.args)
        /\ SameTextAround
        /\ Len(PlaceholdersOf(out.sql)) = Len(PlaceholdersOf(tree.sql))
        /\ \A j \in 1..Len(PlaceholdersOf(out.sql)) :
              IF out.dialect = "postgres"
              THEN /\ PlaceholdersOf(out.sql)[j].ph = "$"
                   /\ PlaceholdersOf(out.sql)[j].n
                         = out.offset + PlaceholdersOf(tree.sql)[j].n - 1
              ELSE PlaceholdersOf(out.sql)[j].ph = "?"

(* eleven tokens in descending textual order at offset 3 under Postgres: $10 became
   $12 and $1 became $3 *)
C16_WitnessPostgres ==
    /\ RawCompiled
    /\ out.dialect = "postgres"
    /\ out.offset = 3
    /\ Len(tree.args) = 11
    /\ PlaceholdersOf(tree.sql)[2].n = 10
    /\ PlaceholdersOf(out.sql)[2].n = 12
    /\ PlaceholdersOf(tree.sql)[11].n = 1
    /\ PlaceholdersOf(out.sql)[11].n = 3

(* "c=$2 c=$1" under MySQL: the first ? replaced $2 and is bound to the first argument *)
C16_WitnessMySQL ==
    /\ RawCompiled
    /\ out.dialect = "mysql"
    /\ Len(tree.args) = 2
    /\ PlaceholdersOf(tree.sql)[1].n = 2
    /\ PlaceholdersOf(out.sql)[1].ph = "?"
    /\ BoundArg(1) = 1

----------------------------------------------------------------------------
(* C17: In and NotIn by the number of values                                *)

InCompiled ==
    mode = "shape" /\ out.done /\ tree.kind = "in"

(* the text "p1, p2, ..., pN" of N placeholders numbered from offset o *)
ExpectedInList(d, o, n) ==
    [j \in 1..(2 * n - 1) |->
        IF j % 2 = 1 THEN Placeholder(d, o + (j - 1) \div 2) ELSE W(",")]

ExpectedIn(s, d, o) ==
    IF Len(s.vals) = 0
    THEN [sql |-> <<W(IF s.flag THEN "TRUE" ELSE "FALSE")>>, args |-> <<>>, next |-> o]
    ELSE [sql |-> <<W(s.column)>>
                    \o (IF s.flag THEN <<W("NOT"), W("IN")>> ELSE <<W("IN")>>)
                    \o <<W("(")>> \o ExpectedInList(d, o, Len(s.vals)) \o <<W(")")>>,
          args |-> s.vals,
          next |-> o + Len(s.vals)]

(* C17: for every column, dialect and offset o, In(column) with no values compiles
   to the literal FALSE and NotIn(column) with no values to the literal TRUE, both
   with no args and nextOffset = o; with N >= 1 values they compile to
   column IN (...) / column NOT IN (...) with N placeholders of the dialect, the N
   values as args in order, and nextOffset = o + N. *)
C17_InByNumberOfValues ==
    InCompiled =>
        /\ [sql |-> out.sql, args |-> out.args, next |-> out.next]
              = ExpectedIn(tree, out.dialect, out.offset)
        /\ Cardinality({j \in 1..Len(out.sql) : IsPh(out.sql[j])}) = Len(tree.vals)

C17_Witness ==
    /\ InCompiled
    /\ tree.flag
    /\ Len(tree.vals) = MaxIn
    /\ out.dialect = "mysql"
    /\ out.offset = 2
    /\ out.next = 2 + MaxIn

C17_WitnessEmpty ==
    /\ InCompiled
    /\ ~tree.flag
    /\ Len(tree.vals) = 0
    /\ out.sql = <<W("FALSE")>>
    /\ out.offset = 2
    /\ out.next = 2

----------------------------------------------------------------------------
(* C18: And and Or by the number of children                                *)

JoinCompiled ==
    mode = "shape" /\ out.done /\ tree.kind \in {"and", "or"}

(* the results of compiling the children one after another, the first at o and
   every other one at the nextOffset of the child before it *)
ChildResults(specs, d, o) ==
    LET res[i \in 1..Len(specs)] ==
            ToSQL(specs[i], d, IF i = 1 THEN o ELSE res[i - 1].next)
    IN  res

ExpectedJoin(s, d, o) ==
    LET k == Len(s.specs)
        sep == IF s.kind = "and" THEN "AND" ELSE "OR"
        res == ChildResults(s.specs, d, o)
    IN  IF k = 0
        THEN [sql |-> <<W(IF s.kind = "and" THEN "TRUE" ELSE "FALSE")>>,
              args |-> <<>>, next |-> o]
        ELSE IF k = 1
        THEN [sql |-> res[1].sql, args |-> res[1].args, next |-> res[1].next]
        ELSE [sql |-> Concat([i \in 1..k |->
                          (IF i = 1 THEN <<>> ELSE <<W(sep)>>)
                          \o <<W("(")>> \o res[i].sql \o <<W(")")>>]),
              args |-> Concat([i \in 1..k |-> res[i].args]),
              next |-> res[k].next]

(* C18: And and Or compile by number of children: with none to TRUE and FALSE
   respectively, with no args and the offset unchanged; with exactly one to that
   child's SQL, args and nextOffset, without parentheses; with two or more to each
   child's SQL in parentheses, in child order, joined by AND / OR, every child
   compiled at the nextOffset returned by the child before it. *)
C18_JoinByNumberOfChildren ==
    JoinCompiled =>
        [sql |-> out.sql, args |-> out.args, next |-> out.next]
          = ExpectedJoin(tree, out.dialect, out.offset)

C18_Witness ==
    /\ JoinCompiled
    /\ tree.kind = "or"
    /\ Len(tree.specs) = 3
    /\ tree.specs[1].kind = "between"
    /\ tree.specs[2].kind = "and"
    /\ tree.specs[3].kind = "cmp"
    /\ out.dialect = "postgres"
    /\ out.offset = 2
    /\ out.next = 7

C18_WitnessSingle ==
    /\ JoinCompiled
    /\ tree.kind = "and"
    /\ Len(tree.specs) = 1
    /\ tree.specs[1].kind = "cmp"
    /\ out.sql = <<W("a"), W("="), Placeholder("postgres", 1)>>

C18_WitnessNone ==
    /\ JoinCompiled
    /\ Len(tree.specs) = 0
    /\ out.sql = <<W("FALSE")>>

----------------------------------------------------------------------------
(* C19: the shape of the keyset predicate                                   *)

KeysetBuilt ==
    mode = "keyset" /\ kout.done

(* the strict comparison on order clause i: > when (Asc and forward) or (Desc and not
   forward), < otherwise *)
IsStrictComparison(s, i) ==
    /\ s.kind = "cmp"
    /\ s.column = kin.orders[i].column
    /\ s.vals = <<kin.values[kin.orders[i].column]>>
    /\ s.op = (IF \/ (kin.orders[i].dir = "ASC" /\ kin.forward)
                  \/ (kin.orders[i].dir = "DESC" /\ ~kin.forward)
               THEN ">" ELSE "<")

IsEquality(s, j) ==
    /\ s.kind = "cmp"
    /\ s.op = "="
    /\ s.column = kin.orders[j].column
    /\ s.vals = <<kin.values[kin.orders[j].column]>>

(* alternative i, 1-based: equalities on order clauses 1..i-1, then the strict
   comparison on clause i; with no equality it is the comparison alone *)
IsAlternative(s, i) ==
    IF i = 1 THEN IsStrictComparison(s, 1)
    ELSE /\ s.kind = "and"
         /\ Len(s.specs) = i
         /\ \A j \in 1..(i - 1) : IsEquality(s.specs[j], j)
         /\ IsStrictComparison(s.specs[i], i)

(* C19: buildKeysetSpec(orders, values, forward) returns nil when orders is empty; for
   n >= 1 order clauses it returns an OR of n alternatives in order, alternative i
   being the AND of equalities on the columns before column i followed by one strict
   comparison on column i, which is > when (the column is Asc and forward) or (Desc and
   not forward) and < otherwise, so that it binds n(n+1)/2 arguments; for n = 1 it is
   the bare comparison with no OR/AND wrapping. *)
C19_KeysetShape ==
    KeysetBuilt =>
        LET n == Len(kin.orders)
        IN  /\ n = 0 => kout.spec = NilSpec
            /\ n = 1 =>
                  /\ IsStrictComparison(kout.spec, 1)
                  /\ Len(kout.sql) = 3 /\ kout.sql[2] = W(kout.spec.op) /\ IsPh(kout.sql[3])
            /\ n >= 2 =>
                  /\ kout.spec.kind = "or"
                  /\ Len(kout.spec.specs) = n
                  /\ \A i \in 1..n : IsAlternative(kout.spec.specs[i], i)
            /\ 2 * Len(kout.args) = n * (n + 1)

C19_Witness ==
    /\ KeysetBuilt
    /\ Len(kin.orders) = 3
    /\ ~kin.forward
    /\ kin.orders[1].dir = "ASC" /\ kin.orders[2].dir = "DESC"
    /\ kout.spec.kind = "or"
    /\ kout.spec.specs[1].op = "<"
    /\ kout.spec.specs[2].specs[2].op = ">"
    /\ Len(kout.args) = 6

C19_WitnessSingle ==
    /\ KeysetBuilt
    /\ kin.orders = <<[column |-> "id", dir |-> "DESC"]>>
    /\ kin.forward
    /\ kout.sql = <<W("id"), W("<"), Placeholder("postgres", 1)>>

C19_WitnessNil ==
    /\ KeysetBuilt
    /\ Len(kin.orders) = 0
    /\ kout.spec = NilSpec

----------------------------------------------------------------------------
(* C20: the upsert statement of a table with no updatable column            *)

UpsertBuilt ==
    mode = "upsert" /\ out.done

(* every column is a primary-key column and no updated-at column is configured *)
NoUpdatableColumn(t) ==
    /\ SeqSet(t.Columns) \subseteq SeqSet(t.PrimaryKey)
    /\ t.UpdatedAt = ""

HasUpdateClause(stmt) ==
    stmt.conflict \in {"ON DUPLICATE KEY UPDATE", "ON CONFLICT DO UPDATE SET"}

(* C20: when a table has no updatable column, UpsertSQL yields for MySQL an
   INSERT IGNORE INTO statement with no ON DUPLICATE KEY UPDATE clause, and for SQLite
   and Postgres a statement whose conflict clause is DO NOTHING; no dialect ever emits
   an update clause with an empty SET list. *)
C20_NoUpdatableColumnNoUpdateClause ==
    UpsertBuilt =>
        /\ NoUpdatableColumn(tree) =>
              IF out.dialect = "mysql"
              THEN out.stmt.verb = "INSERT IGNORE" /\ out.stmt.conflict = ""
              ELSE out.stmt.conflict = "ON CONFLICT DO NOTHING"
        /\ ~(HasUpdateClause(out.stmt) /\ Len(out.stmt.setClauses) = 0)

(* the part of C20 about MySQL: INSERT IGNORE and no update clause exactly when there
   is nothing to update *)
C20_MySQLInsertIgnore ==
    (UpsertBuilt /\ out.dialect = "mysql") =>
        IF NoUpdatableColumn(tree)
        THEN out.stmt.verb = "INSERT IGNORE" /\ out.stmt.conflict = ""
        ELSE /\ out.stmt.verb = "INSERT"
             /\ out.stmt.conflict = "ON DUPLICATE KEY UPDATE"
             /\ Len(out.stmt.setClauses) >= 1

(* SQLite or Postgres, a key-only table: an update clause with an empty SET list *)
C20_EmptySetList ==
    /\ UpsertBuilt
    /\ out.dialect \in {"sqlite", "postgres"}
    /\ tree.Columns = <<"account_id">>
    /\ tree.PrimaryKey = <<"account_id">>
    /\ tree.UpdatedAt = ""
    /\ out.stmt.conflict = "ON CONFLICT DO UPDATE SET"
    /\ out.stmt.setClauses = <<>>

----------------------------------------------------------------------------
(* C21: the batch insert of the children of a relation                      *)

(* the positions in the log of the last Save that are batch inserts *)
BatchInserts ==
    {i \in 1..Len(last.log) :
        /\ last.log[i].verb = "INSERT"
        /\ "tuples" \in DOMAIN last.log[i].sql}

SavedWithBatchInsert ==
    mode = "write" /\ last.op = "Save" /\ BatchInserts # {}

(* the child rows the caller handed to Save for the table of log entry i *)
SavedChildren(i) ==
    last.agg.children[last.log[i].table]

RelationColumns(i) ==
    cfg.relations[RelationOf(cfg, last.log[i].table)].Columns

(* C21: BatchInsertSQL(table, C columns, R rows) emits exactly R parenthesized tuples
   of C placeholders each; under Postgres the placeholder of row r, column j (both
   0-based) is $(r*C + j + 1), so the statement uses $1..$(R*C) contiguously in order,
   and the composite driver's batch insert passes the child rows flattened row by row,
   so that this placeholder binds childRows[r][j]. *)
C21_BatchInsertTuples ==
    (mode = "write" /\ last.op = "Save") =>
        \A i \in BatchInserts :
            LET e == last.log[i]
                R == Len(SavedChildren(i))
                cols == RelationColumns(i)
                C == Len(cols)
            IN  /\ Len(e.sql.tuples) = R
                /\ \A r \in 1..R :
                      /\ Len(e.sql.tuples[r]) = C
                      /\ \A j \in 1..C : IsPh(e.sql.tuples[r][j])
                /\ cfg.dialect = "postgres" =>
                      /\ \A r \in 1..R, j \in 1..C :
                            e.sql.tuples[r][j] = Ph("$", (r - 1) * C + j)
                      /\ e.sql.valuePh = [k \in 1..(R * C) |-> Ph("$", k)]
                /\ Len(e.args) = R * C
                /\ \A r \in 1..R, j \in 1..C :
                      e.args[(r - 1) * C + j] = SavedChildren(i)[r][cols[j]]

C21_Witness ==
    /\ SavedWithBatchInsert
    /\ cfg.dialect = "postgres"
    /\ last.err = ""
    /\ \E i \in BatchInserts :
          /\ Len(last.log[i].sql.tuples) = MaxChildren
          /\ last.log[i].sql.tuples[MaxChildren][1].n = 3 * (MaxChildren - 1) + 1
          /\ last.log[i].args[3 * (MaxChildren - 1) + 1] = 10 + MaxChildren

C21_WitnessMySQL ==
    /\ SavedWithBatchInsert
    /\ cfg.dialect = "mysql"
    /\ \E i \in BatchInserts : Len(last.log[i].sql.tuples) = MaxChildren

----------------------------------------------------------------------------
(* C22: not-found and the other failures of Find and First                  *)

ReadOneRow ==
    mode = "read" /\ last.op \in {"Find", "First"}

(* the first query of the call was executed *)
QueryIssued ==
    Len(last.log) >= 1

(* the first query of the call was executed and yields no row *)
QueryYieldsNoRow ==
    /\ QueryIssued
    /\ last.log[1].ok
    /\ \A res \in RunSelect(last.log[1].sql, last.log[1].args, db.root) : Len(res) = 0

(* some query of the call failed *)
SomeQueryFailed ==
    \E i \in 1..Len(last.log) : ~last.log[i].ok

(* the statement ends with LIMIT and a placeholder bound to 1, or with that and OFFSET *)
LimitOne(sql, args) ==
    \E i \in 1..(Len(sql) - 1) :
        /\ sql[i] = W("LIMIT") /\ IsPh(sql[i + 1])
        /\ args[Cardinality({j \in 1..(i + 1) : IsPh(sql[j])})] = 1

(* C22: Find returns an error matching ErrNotFound exactly when its single-row query
   yields zero rows, and Query.First, which always runs with LIMIT 1, returns
   ErrNotFound exactly when its query yields zero rows; any other failure of the
   underlying query is returned to the caller as an error that does not match
   ErrNotFound. *)
C22_NotFoundExactlyOnZeroRows ==
    ReadOneRow =>
        /\ (last.err = "ErrNotFound") <=> QueryYieldsNoRow
        /\ SomeQueryFailed => last.err \notin {"", "ErrNotFound"}
        /\ (last.op = "First" /\ QueryIssued) => LimitOne(last.log[1].sql, last.log[1].args)
        /\ last.err = "" => Len(last.read.items) = 1

C22_Witness ==
    /\ ReadOneRow
    /\ last.op = "Find"
    /\ cfg.table.SoftDelete # ""
    /\ last.ids = <<2>>
    /\ \E r \in db.root : r.id = 2
    /\ last.err = "ErrNotFound"

C22_WitnessFirst ==
    /\ ReadOneRow
    /\ last.op = "First"
    /\ db.root # {}
    /\ last.err = "ErrNotFound"

C22_WitnessOtherError ==
    /\ ReadOneRow
    /\ last.op = "Find"
    /\ cfg.driver = "composite"
    /\ Len(last.log) = 2
    /\ ~last.log[2].ok
    /\ last.err = "context canceled"

C22_WitnessFound ==
    /\ ReadOneRow
    /\ last.op = "First"
    /\ last.err = ""
    /\ Len(last.log) = 3

----------------------------------------------------------------------------
(* C23: the placeholders of a complete statement under Postgres             *)

StmtBuilt ==
    mode = "stmt" /\ out.done

(* the numbers of the placeholders of the statement, in textual order *)
StmtNumbers ==
    [j \in 1..Len(SelectSeq(out.query, IsPh)) |-> SelectSeq(out.query, IsPh)[j].n]

StmtHasLimit ==
    out.op = "Page" \/ q.limit.set

StmtLimit ==
    IF out.op = "Page" THEN q.pageSize.n + 1 ELSE q.limit.n

StmtHasOffset ==
    out.op # "Page" /\ q.offset.set

(* the number of arguments of the filters, the soft-delete filter and the keyset
   predicate *)
StmtFilterArgs ==
    Len(out.args) - (IF StmtHasLimit THEN 1 ELSE 0) - (IF StmtHasOffset THEN 1 ELSE 0)

(* the clause word is followed by the placeholder $n, every placeholder before it has a
   smaller number, and the n-th argument is value *)
StmtClause(word, n, value) ==
    \E i \in 1..(Len(out.query) - 1) :
        /\ out.query[i] = W(word)
        /\ out.query[i + 1] = Ph("$", n)
        /\ \A j \in 1..(i - 1) : IsPh(out.query[j]) => out.query[j].n < n
        /\ n \in 1..Len(out.args)
        /\ out.args[n] = value

StmtLimitAndOffset ==
    /\ StmtHasLimit => StmtClause("LIMIT", StmtFilterArgs + 1, StmtLimit)
    /\ ~StmtHasLimit => \A i \in 1..Len(out.query) : out.query[i] # W("LIMIT")
    /\ StmtHasOffset => StmtClause("OFFSET", Len(out.args), q.offset.n)
    /\ ~StmtHasOffset => \A i \in 1..Len(out.query) : out.query[i] # W("OFFSET")

(* a Raw filter whose tokens the caller did not write in ascending order *)
RawOutOfOrder(s) ==
    /\ s.kind = "raw"
    /\ \E i, j \in 1..Len(s.specs) :
          i < j /\ IsPh(s.specs[i]) /\ IsPh(s.specs[j]) /\ s.specs[i].n > s.specs[j].n

(* C23 as stated: for every Query configuration the statement built for All, First and
   Page under Postgres contains $1..$k exactly once each in textual order with
   k = len(args); LIMIT's placeholder follows the last filter placeholder and binds the
   limit (pageSize+1 for Page), OFFSET's follows LIMIT's and binds the offset *)
C23_PlaceholdersInTextualOrder ==
    StmtBuilt =>
        /\ StmtNumbers = [j \in 1..Len(out.args) |-> j]
        /\ StmtLimitAndOffset

(* C23 amended: $1..$k appear exactly once each with k = len(args), and in textual order
   unless a Raw filter names its arguments out of ascending order, whose placeholders
   keep the order the caller wrote; LIMIT and OFFSET as stated *)
C23_PlaceholdersOnceEach ==
    StmtBuilt =>
        /\ Len(StmtNumbers) = Len(out.args)
        /\ {StmtNumbers[j] : j \in 1..Len(StmtNumbers)} = 1..Len(out.args)
        /\ (\A i \in 1..Len(q.specs) : ~RawOutOfOrder(q.specs[i]))
              => StmtNumbers = [j \in 1..Len(out.args) |-> j]
        /\ StmtLimitAndOffset

(* All over a soft-delete table with In and Or filters, a limit and an offset: the
   statement ends LIMIT $6 OFFSET $7 *)
C23_Witness ==
    /\ StmtBuilt
    /\ out.op = "All"
    /\ out.table.SoftDelete # ""
    /\ q.specs = <<In("b", <<12, 13>>), Or(<<Eq("a", 14), Between("b", 15, 16)>>)>>
    /\ SubSeq(out.query, Len(out.query) - 3, Len(out.query))
          = <<W("LIMIT"), Ph("$", 6), W("OFFSET"), Ph("$", 7)>>
    /\ out.args = <<12, 13, 14, 15, 16, 5, 7>>

(* Page after a cursor with one filter and no page size: the keyset predicate follows
   the filter and LIMIT binds 21 *)
C23_WitnessPage ==
    /\ StmtBuilt
    /\ out.op = "Page"
    /\ q.cursor # EmptyToken
    /\ q.specs = <<Eq("a", 11)>>
    /\ q.offset.set
    /\ out.args[Len(out.args)] = 21
    /\ Len(out.args) > 2

(* First after a Raw filter written "y = $2 AND x = $1" behind one filter: the
   placeholders read $1, $3, $2, $4 *)
C23_WitnessRaw ==
    /\ StmtBuilt
    /\ out.op = "First"
    /\ q.specs = <<Eq("a", 11), RawDescending>>
    /\ out.table.SoftDelete = ""
    /\ ~q.offset.set
    /\ StmtNumbers = <<1, 3, 2, 4>>
    /\ out.args = <<11, 17, 18, 1>>

----------------------------------------------------------------------------
(* C24: a relation whose foreign key is not among its columns               *)

FindManyReturned ==
    mode = "find" /\ last.op = "FindBy"

(* relation i does not declare its foreign-key column *)
ForeignKeyUndeclared(i) ==
    /\ i \in 1..Len(cfg.relations)
    /\ \A j \in 1..Len(cfg.relations[i].Columns) :
          cfg.relations[i].Columns[j] # cfg.relations[i].ForeignKey

ConfigurationError ==
    "foreign key not found in columns"

ChildQueryIssued(i) ==
    \E k \in 1..Len(last.log) : last.log[k].table = cfg.relations[i].Table

FailedQueries ==
    {k \in 1..Len(last.log) : ~last.log[k].ok}

(* C24 as stated: with such a relation every findMany returns a configuration error,
   whatever rows the parent query returns, the relation's child query is never issued,
   and no aggregate is returned *)
C24_UndeclaredForeignKeyAlwaysReported ==
    \A i \in 1..Len(cfg.relations) :
        FindManyReturned /\ ForeignKeyUndeclared(i) =>
            /\ last.err = ConfigurationError
            /\ ~ChildQueryIssued(i)
            /\ last.read.items = <<>>

(* C24 amended: with such a relation findMany returns a configuration error whenever the
   parent query returns at least one row and no query issued before the relation is
   reached fails; with no parent row it returns an empty result without error, and
   after a failed query that query's error; the relation's child query is never issued
   and no aggregate is ever returned *)
C24_UndeclaredForeignKeyReportedOnRows ==
    \A i \in 1..Len(cfg.relations) :
        FindManyReturned /\ ForeignKeyUndeclared(i) =>
            /\ ~ChildQueryIssued(i)
            /\ last.read.items = <<>>
            /\ (FailedQueries = {} /\ last.read.n >= 1) => last.err = ConfigurationError
            /\ (FailedQueries = {} /\ last.read.n = 0) => last.err = "" /\ Len(last.log) = 1
            /\ FailedQueries # {} =>
                  /\ last.err \in {"query failed", "context canceled"}
                  /\ FailedQueries = {Len(last.log)}

(* two stored parents, the relation items loaded, then the configuration error of notes *)
C24_Witness ==
    /\ FindManyReturned
    /\ ForeignKeyUndeclared(2)
    /\ last.read.n = 2
    /\ Len(last.log) = 2
    /\ FailedQueries = {}
    /\ last.err = ConfigurationError

(* the parent query returns no row although parents are stored: no error *)
C24_WitnessNoRow ==
    /\ FindManyReturned
    /\ ForeignKeyUndeclared(2)
    /\ last.before.root # {}
    /\ last.spec = Eq("id", 0)
    /\ last.err = ""
    /\ last.read.items = <<>>

(* the query of the relation before fails: its error, not the configuration error *)
C24_WitnessEarlierFailure ==
    /\ FindManyReturned
    /\ ForeignKeyUndeclared(2)
    /\ last.read.n >= 1
    /\ FailedQueries = {2}
    /\ last.err = "query failed"

----------------------------------------------------------------------------
(* C25: the order of the statements of a composite Save with relations      *)

CompositeSaveCall ==
    /\ mode = "write"
    /\ last.op = "Save"
    /\ cfg.driver = "composite"
    /\ Len(cfg.relations) >= 1

(* the statements of the log, in the order they were issued *)
IssuedStatements ==
    [j \in 1..Cardinality(StatementPositions(last.log)) |->
        last.log[Ascending(StatementPositions(last.log))[j]]]

(* what a statement is: a delete, a batch insert or an upsert of a table, and the
   arguments of an insert or upsert *)
Shape(table, kind, args) ==
    [table |-> table, kind |-> kind, args |-> args]

ShapeOf(e) ==
    IF e.verb = "DELETE" THEN Shape(e.table, "delete", <<>>)
    ELSE IF "tuples" \in DOMAIN e.sql THEN Shape(e.table, "batch insert", e.args)
    ELSE Shape(e.table, "upsert", e.args)

(* the statements the claim gives for relation i of the saved aggregate *)
RelationPlan(i) ==
    LET rel == cfg.relations[i]
        saved == last.agg.children[rel.Table]
        vals == [j \in 1..Len(saved) |-> Values(rel.Columns, saved[j])]
    IN  IF rel.OnSave = DeleteAndReinsert
        THEN <<Shape(rel.Table, "delete", <<>>)>>
             \o (IF Len(saved) > 0 THEN <<Shape(rel.Table, "batch insert", Concat(vals))>>
                 ELSE <<>>)
        ELSE [j \in 1..Len(saved) |-> Shape(rel.Table, "upsert", vals[j])]

SavePlan ==
    <<Shape(cfg.table.Name, "upsert", Values(cfg.table.Columns, last.agg.root))>>
    \o Concat([i \in 1..Len(cfg.relations) |-> RelationPlan(i)])

VersionCheckFailed ==
    /\ cfg.table.VersionColumn # ""
    /\ Len(IssuedStatements) >= 1
    /\ IssuedStatements[1].ok
    /\ IssuedStatements[1].affected = 0

(* C25: a composite Save with relations issues the root upsert first, then relation by
   relation in declaration order the child delete followed by at most one batch insert
   (DeleteAndReinsert) or one upsert per child row in row order (Upsert); no child
   statement is issued when the version check fails, and no statement is issued after
   one has returned an error *)
C25_SaveStatementOrder ==
    CompositeSaveCall =>
        /\ Len(IssuedStatements) <= Len(SavePlan)
        /\ \A j \in 1..Len(IssuedStatements) : ShapeOf(IssuedStatements[j]) = SavePlan[j]
        /\ \A j \in 1..Len(IssuedStatements) : ~IssuedStatements[j].ok => j = Len(IssuedStatements)
        /\ VersionCheckFailed => Len(IssuedStatements) = 1
        /\ last.err = "" => Len(IssuedStatements) = Len(SavePlan)
        /\ Len(IssuedStatements) < Len(SavePlan) => last.err # ""

(* two relations, Upsert then DeleteAndReinsert, two children each, nothing fails: root
   upsert, two child upserts in row order, delete, one batch insert *)
C25_Witness ==
    /\ CompositeSaveCall
    /\ Len(cfg.relations) = 2
    /\ last.err = ""
    /\ Len(IssuedStatements) = 5
    /\ [j \in 1..5 |-> ShapeOf(IssuedStatements[j]).kind]
          = <<"upsert", "upsert", "upsert", "delete", "batch insert">>
    /\ IssuedStatements[2].args[1] = 11
    /\ IssuedStatements[3].args[1] = 12

(* the second child upsert fails: the delete and the insert of the next relation are
   not issued *)
C25_WitnessStopped ==
    /\ CompositeSaveCall
    /\ Len(cfg.relations) = 2
    /\ Len(IssuedStatements) = 3
    /\ ~IssuedStatements[3].ok
    /\ Len(SavePlan) = 5

(* the version check fails: the root upsert is the only statement *)
C25_WitnessVersion ==
    /\ CompositeSaveCall
    /\ VersionCheckFailed
    /\ last.err = "ErrConcurrentModification"
    /\ Len(SavePlan) > 1

----------------------------------------------------------------------------
(* C26: the order list of Page                                              *)

(* the primary-key columns of the table that the clauses do not name, in key order *)
UnnamedKeys(t, clauses) ==
    LET Unnamed(pk) == \A i \in 1..Len(clauses) : clauses[i].column # pk
    IN  SelectSeq(t.PrimaryKey, Unnamed)

ExpectedPageOrders(t, clauses) ==
    clauses \o [i \in 1..Len(UnnamedKeys(t, clauses)) |->
                  [column |-> UnnamedKeys(t, clauses)[i], dir |-> "ASC"]]

(* the ORDER BY clause of the statement: the tokens between ORDER BY and LIMIT *)
OrderByTokens ==
    LET from == CHOOSE i \in 1..Len(out.query) : out.query[i] = W("ORDER")
        to == CHOOSE i \in 1..Len(out.query) : out.query[i] = W("LIMIT")
    IN  SubSeq(out.query, from + 2, to - 1)

(* C26: the order list Page sorts and builds its keyset predicate with is the caller's
   clauses in their sequence followed by every primary-key column they do not name,
   ascending, in declared key order; it contains every primary-key column, and computing
   it leaves the builder's own order list unchanged *)
C26_PageOrderList ==
    [][(mode = "stmt" /\ out'.done /\ out'.op = "Page") =>
          /\ out'.orders = ExpectedPageOrders(out.table, q.orderCols)
          /\ \A k \in 1..Len(out.table.PrimaryKey) :
                \E i \in 1..Len(out'.orders) : out'.orders[i].column = out.table.PrimaryKey[k]
          /\ q'.orderCols = q.orderCols
          /\ \E i \in 1..Len(out'.query) : out'.query[i] = W("ORDER")
          /\ LET from == CHOOSE i \in 1..Len(out'.query) : out'.query[i] = W("ORDER")
                 to == CHOOSE i \in 1..Len(out'.query) : out'.query[i] = W("LIMIT")
             IN  SubSeq(out'.query, from + 2, to - 1)
                   = Join([i \in 1..Len(out'.orders) |->
                             <<W(out'.orders[i].column), W(out'.orders[i].dir)>>], <<W(",")>>)
      ]_vars

(* a key (id, b) and the caller's clauses b DESC, a ASC: id is appended ascending and
   the builder still holds the caller's two clauses *)
C26_Witness ==
    /\ StmtBuilt
    /\ out.op = "Page"
    /\ out.table.PrimaryKey = <<"id", "b">>
    /\ q.orderCols = <<[column |-> "b", dir |-> "DESC"], [column |-> "a", dir |-> "ASC"]>>
    /\ out.orders = <<[column |-> "b", dir |-> "DESC"], [column |-> "a", dir |-> "ASC"],
                      [column |-> "id", dir |-> "ASC"]>>
    /\ OrderByTokens = <<W("b"), W("DESC"), W(","), W("a"), W("ASC"), W(","),
                         W("id"), W("ASC")>>

(* no clause of the caller: both key columns in declared order *)
C26_WitnessNoClause ==
    /\ StmtBuilt
    /\ out.op = "Page"
    /\ q.orderCols = <<>>
    /\ out.orders = <<[column |-> "id", dir |-> "ASC"], [column |-> "b", dir |-> "ASC"]>>

----------------------------------------------------------------------------
(* C27: findMany against findOne                                            *)

FindManySucceeded ==
    /\ mode = "find"
    /\ last.op = "FindBy"
    /\ last.err = ""
    /\ Len(cfg.relations) >= 1

(* the orders in which findOne can load the children of relation i for the parent row:
   every order of the rows selected by foreign key *)
FindOneChildren(i, parent) ==
    RunSelect(selectByFK(cfg.relations[i], cfg.dialect),
              <<extractPK(cfg, parent)>>, last.before.kids[cfg.relations[i].Table])

(* C27: findMany on a composite mapping returns one aggregate per parent row, in the
   order of the parent rows, each built from exactly the child rows that findOne would
   load for that parent: no child row of a returned parent is dropped and none is
   attached to another parent *)
C27_FindManyAsFindOne ==
    FindManySucceeded =>
        /\ Len(last.read.items) = last.read.n
        /\ [j \in 1..Len(last.read.items) |-> last.read.items[j].root]
              \in RunSelect(last.log[1].sql, last.log[1].args, last.before.root)
        /\ \A j \in 1..Len(last.read.items), i \in 1..Len(cfg.relations) :
              last.read.items[j].children[cfg.relations[i].Table]
                  \in FindOneChildren(i, last.read.items[j].root)

(* the part of C27 that holds: the aggregates are the parent rows in their order, no
   child row is attached to a parent its foreign key does not name, and when the
   driver hands the foreign key over as an int64 or a string every aggregate has the
   children findOne would load *)
C27_FindManyAsFindOneOnPrintableKeys ==
    FindManySucceeded =>
        /\ Len(last.read.items) = last.read.n
        /\ [j \in 1..Len(last.read.items) |-> last.read.items[j].root]
              \in RunSelect(last.log[1].sql, last.log[1].args, last.before.root)
        /\ \A j \in 1..Len(last.read.items), i \in 1..Len(cfg.relations) :
              LET mine == last.read.items[j].children[cfg.relations[i].Table]
              IN  /\ \A k \in 1..Len(mine) :
                        mine[k][cfg.relations[i].ForeignKey]
                            = extractPK(cfg, last.read.items[j].root)
                  /\ cfg.keys # "[]byte" =>
                        mine \in FindOneChildren(i, last.read.items[j].root)

(* string keys handed over as []byte: parent o1 has two stored items, findMany returns
   it without children and without an error *)
C27_WitnessDropped ==
    /\ FindManySucceeded
    /\ cfg.keys = "[]byte"
    /\ last.read.n >= 1
    /\ last.read.items[1].root.id = 1
    /\ last.read.items[1].children["items"] = <<>>
    /\ Len(last.log) = Len(cfg.relations) + 1
    /\ \E r \in last.before.kids["items"] : r.order_id = 1

(* integer keys: parent 1 comes back with its two items *)
C27_WitnessAttached ==
    /\ FindManySucceeded
    /\ cfg.keys = "int64"
    /\ last.read.n = 2
    /\ \E j \in 1..2 : Len(last.read.items[j].children["items"]) = 2

----------------------------------------------------------------------------
(* C28: the foreign-key parameter of the child deletes                      *)

KeyedCall ==
    mode = "keys" /\ last.op \in {"Save", "Delete"}

(* the key of the parent row the call is about, the column the children refer to *)
ParentKey ==
    IF last.op = "Save" THEN last.agg.root[cfg.table.PrimaryKey[1]] ELSE last.ids[1]

ChildDeletes ==
    {i \in 1..Len(last.log) :
        last.log[i].verb = "DELETE" /\ last.log[i].table \in RelationTables(cfg)}

(* C28: in a composite Save and a composite Delete the value bound to the foreign-key
   parameter of every child delete is the parent row's primary-key value, whatever
   the position of the key column in Columns and for single and composite keys; child
   rows of no other parent are ever deleted *)
C28_ChildDeletesBindParentKey ==
    KeyedCall =>
        /\ \A i \in ChildDeletes : last.log[i].args = <<ParentKey>>
        /\ \A tn \in RelationTables(cfg) :
              \A r \in last.before.kids[tn] : r.order_id # ParentKey => r \in db.kids[tn]

(* the part of C28 that holds: Save binds the first value of the root tuple, which is
   the key only when the key column stands first in Columns, and Delete binds the
   first identifier; when that is the parent's key no other parent loses a child *)
C28_ChildDeletesBindFirstValue ==
    KeyedCall =>
        /\ \A i \in ChildDeletes :
              last.log[i].args
                  = <<IF last.op = "Save" THEN last.agg.root[cfg.table.Columns[1]]
                      ELSE last.ids[1]>>
        /\ (last.op = "Delete" \/ cfg.table.Columns[1] = cfg.table.PrimaryKey[1]) =>
              \A tn \in RelationTables(cfg) :
                 \A r \in last.before.kids[tn] : r.order_id # ParentKey => r \in db.kids[tn]

(* Columns (total, id, version): Save of order 1 with total 2 deleted the items of
   order 2 and returned nil *)
C28_WitnessOtherParent ==
    /\ KeyedCall
    /\ last.op = "Save"
    /\ last.err = ""
    /\ cfg.table.Columns[1] = "total"
    /\ last.agg.root.id = 1
    /\ last.agg.root.total = 2
    /\ ChildRow(21, 2, 1) \in last.before.kids["items"]
    /\ ChildRow(21, 2, 1) \notin db.kids["items"]

(* a composite key (id, total): Delete of (1, 1) binds 1 *)
C28_WitnessComposite ==
    /\ KeyedCall
    /\ last.op = "Delete"
    /\ Len(cfg.table.PrimaryKey) = 2
    /\ last.err = ""
    /\ ChildDeletes # {}
    /\ \A i \in ChildDeletes : last.log[i].args = <<1>>

----------------------------------------------------------------------------
(* C29: building a statement and the caller's slice                         *)

(* the arguments the Spec contributes to a statement *)
SharedSpecArgs ==
    (IF cfg.form = "And(Eq, In)" THEN <<9>> ELSE <<>>) \o <<11, 12>>

OwnArgs(i) ==
    <<LimitOf(i)>> \o (IF cfg.offsets THEN <<OffsetOf(i)>> ELSE <<>>)

(* C29: building a statement never writes to memory reachable from a Spec or from the
   slice the caller passed to In, NotIn or Raw; the argument list of each of two
   statements built from one Spec is the Spec's arguments followed by the query's own
   limit and offset, whatever the interleaving and the spare capacity of the slice *)
C29_BuildingLeavesCallerSliceAlone ==
    mode = "share" =>
        /\ db[1] = CallerArray(cfg.spare)
        /\ \A i \in Builders :
              wr[i].pc = "done" => wr[i].sent = SharedSpecArgs \o OwnArgs(i)

(* the part of C29 that holds: the elements the Spec holds are never written, and the
   caller's array and both argument lists are as claimed when the slice has no spare
   capacity or the Spec's arguments are copied by an And of two children *)
C29_BuildingCopiesWithoutSpareCapacity ==
    mode = "share" =>
        /\ Elements(db, cfg.held) = <<11, 12>>
        /\ (cfg.spare = 0 \/ cfg.form \in {"And(Eq, In)", "In, soft delete"}) =>
              /\ db[1] = CallerArray(cfg.spare)
              /\ \A i \in Builders :
                    wr[i].pc = "done" => wr[i].sent = SharedSpecArgs \o OwnArgs(i)

(* In over vals[:2] of a slice of three elements: the first query sends the limit of
   the second, and the caller's third element is overwritten *)
C29_WitnessOverwritten ==
    /\ mode = "share"
    /\ cfg.form = "In"
    /\ cfg.spare = 1
    /\ ~cfg.offsets
    /\ wr[1].pc = "done"
    /\ wr[1].sent = <<11, 12, 52>>
    /\ db[1] = <<11, 12, 52>>

(* the same Spec under And with a second child: both argument lists as claimed *)
C29_WitnessCopied ==
    /\ mode = "share"
    /\ cfg.form = "And(Eq, In)"
    /\ cfg.spare = 2
    /\ cfg.offsets
    /\ wr[1].pc = "done" /\ wr[2].pc = "done"
    /\ wr[1].sent = <<9, 11, 12, 51, 71>>
    /\ wr[2].sent = <<9, 11, 12, 52, 72>>

----------------------------------------------------------------------------
(* C30: Page with any page size                                             *)

PagedAnySize ==
    mode = "size" /\ pc = "paged"

(* C30: for every page size, 0 and negative values included, and every result of the
   query with LIMIT pageSize+1, Page returns a page or an error without an
   out-of-range slice operation, and the page holds at most max(pageSize, 0) items *)
C30_PageReturnsForEveryPageSize ==
    PagedAnySize =>
        /\ page.status \in {"ok", "err"}
        /\ page.status = "ok" =>
              Len(page.Items) <= (IF page.pageSize > 0 THEN page.pageSize ELSE 0)

(* the part of C30 that holds: with a page size of 0 or more Page returns a page of at
   most pageSize items or the error of the query; it panics exactly when the page
   size is negative and the query returns no row *)
C30_PageReturnsForNonNegativePageSize ==
    PagedAnySize =>
        /\ page.pageSize >= 0 =>
              /\ page.status \in {"ok", "err"}
              /\ page.status = "ok" => Len(page.Items) <= page.pageSize
        /\ page.status = "panic" <=>
              (page.status # "err" /\ page.pageSize < 0 /\ Len(page.fetched) = 0)

(* PageSize(-1) on a table of two rows: LIMIT 0 returns no row, 0 > -1, and items[:-1]
   panics *)
C30_WitnessPanic ==
    /\ PagedAnySize
    /\ page.pageSize = 0 - 1
    /\ Cardinality(rows) = 2
    /\ page.fetched = <<>>
    /\ page.status = "panic"

(* PageSize(-2) under SQLite: LIMIT -1 returns both rows and the page holds one *)
C30_WitnessUnlimited ==
    /\ PagedAnySize
    /\ cfg.dialect = "sqlite"
    /\ page.pageSize = 0 - 2
    /\ Len(page.fetched) = 2
    /\ page.status = "ok"
    /\ Len(page.Items) = 1

(* PageSize(0): LIMIT 1 returns a row, the page is empty and has more *)
C30_WitnessZero ==
    /\ PagedAnySize
    /\ page.pageSize = 0
    /\ Len(page.fetched) = 1
    /\ page.status = "ok"
    /\ page.Items = <<>>
    /\ page.HasMore

====
